---- MODULE Spec2Model ----
(***************************************************************************)
(* A model of the settings manager of nexus (lib/settings): create,        *)
(* change, reset and original over a spec tree of leaves, namespaces and    *)
(* records, with the hooks initial, shorthand, fixup, validate, mapType     *)
(* and the onFixup option.                                                  *)
(*                                                                          *)
(* JavaScript values are tagged records, so that any two of them can be     *)
(* compared:                                                                *)
(*   [undef |-> TRUE]   undefined                                           *)
(*   [str |-> s]        a string                                            *)
(*   [arr |-> seq]      an array of strings                                 *)
(*   [fn |-> id, ...]   a function (its behaviour is given by CallXxx)      *)
(*   [obj |-> es]       a plain object written by a caller or returned by   *)
(*                      a hook: the sequence of its <<key, value>> entries  *)
(*                      in insertion order, which Lo.forOwn and entries()   *)
(*                      follow                                              *)
(*   [map |-> f]        a plain object of the data or metadata tree: the    *)
(*                      code never iterates these in an order that can be   *)
(*                      observed, so only the key -> value function is kept *)
(* The code mutates data and metadata in place; here every function takes   *)
(* the object it would mutate and returns its new content, and the caller   *)
(* stores it back where the reference came from.                            *)
(***************************************************************************)
EXTENDS Integers, Sequences, FiniteSets, TLC

VARIABLES
  cfg,       \* which settings spec and options create() is given (closure of create)
  nodeEnv,   \* process.env.NODE_ENV
  envFoo,    \* process.env.foo, read by the dynamic initializer
  created,   \* whether create() has returned a Manager
  state,     \* the Manager's state = { data, metadata }, and what api.data and api.metadata refer to
  last,      \* the last call: its operation, input, thrown error, return value and trace
  hist       \* history: the trees and process.env.foo at the latest create/reset, the
             \* leaves committed from change input since, and the trees create built

vars == <<cfg, nodeEnv, envFoo, created, state, last, hist>>

-----------------------------------------------------------------------------
(* Values *)

Undefined == [undef |-> TRUE]
Str(s) == [str |-> s]
Num(n) == [num |-> n]
Bool(b) == [bool |-> b]
Arr(q) == [arr |-> q]
Obj(es) == [obj |-> es]
Map(f) == [map |-> f]
EmptyFn == [k \in {} |-> Undefined]
EmptyMap == Map(EmptyFn)
EmptyObj == Obj(<<>>)

IsUndefined(v) == "undef" \in DOMAIN v
IsStr(v) == "str" \in DOMAIN v
IsFunction(v) == "fn" \in DOMAIN v
IsMap(v) == "map" \in DOMAIN v

\* Lo.isPlainObject
isPlainObject(v) == "obj" \in DOMAIN v

\* Names every object inherits from Object.prototype: obj[name] is then a
\* function although obj has no own key of that name.
ProtoKeys == {"toString"}
ProtoFn(k) == [fn |-> "Object.prototype", key |-> k]

Keys(o) == {o.obj[i][1] : i \in 1..Len(o.obj)}
IndexOf(o, k) == CHOOSE i \in 1..Len(o.obj) : o.obj[i][1] = k

\* o[k] for an object in entry form
Get(o, k) ==
  IF k \in Keys(o) THEN o.obj[IndexOf(o, k)][2]
  ELSE IF k \in ProtoKeys THEN ProtoFn(k)
  ELSE Undefined

OwnKeys(d) == DOMAIN d.map

\* d[k] for an object of the data or metadata tree
GetMap(d, k) ==
  IF k \in OwnKeys(d) THEN d.map[k]
  ELSE IF k \in ProtoKeys THEN ProtoFn(k)
  ELSE Undefined

\* d[k] = v
PutMap(d, k, v) == Map([j \in OwnKeys(d) \cup {k} |-> IF j = k THEN v ELSE d.map[j]])

\* The same object when it is held by the data tree.
RECURSIVE ToData(_)
ToData(v) ==
  IF isPlainObject(v)
    THEN Map([k \in Keys(v) |-> ToData(Get(v, k))])
    ELSE v

\* a ?? b
Coalesce(a, b) == IF IsUndefined(a) THEN b ELSE a

-----------------------------------------------------------------------------
(* Errors and the trace of one call *)

NoErr == [kind |-> "none", name |-> ""]
Err(kind, name) == [kind |-> kind, name |-> name]

\* What a call carries besides data and metadata: process.env.foo, the
\* observable events so far (hook calls, notifications, commits) and the
\* exception being thrown, if any.  `input` is the object the caller handed to
\* change, as it is now: resolve holds a reference to it while it runs.
World(env) == [env |-> env, log |-> <<>>, err |-> NoErr, input |-> Undefined]
Emit(m, e) == [m EXCEPT !.log = Append(@, e)]
Throw(m, kind, name) == [m EXCEPT !.err = Err(kind, name)]
Failed(m) == m.err.kind # "none"

-----------------------------------------------------------------------------
(* Hooks: the functions a spec and the options carry.  A call returns       *)
(* [ok |-> TRUE, val |-> v] or, when the function throws, [ok |-> FALSE].    *)

Null == [null |-> TRUE]
IsNullish(v) == "undef" \in DOMAIN v \/ "null" \in DOMAIN v
\* if (v): undefined, null, '', false and 0 are falsy
Truthy(v) == ~IsNullish(v) /\ v \notin {Str(""), Bool(FALSE), Num(0)}

Ret(v) == [ok |-> TRUE, val |-> v]
Thrown == [ok |-> FALSE, val |-> Undefined]

\* The strings the model's callers use; '/' + s is a string for each of them.
Stems == {"foo", "bad", "boom", "bar"}
StartsWithSlash(s) == s \in {"/" \o t : t \in Stems}

\* const c = (x) => () => x
c(x) == [fn |-> "c", x |-> x]
\* () => process.env.foo
FnEnvFoo == [fn |-> "envFoo"]
\* () => { throw new Error(...) }
FnThrow == [fn |-> "throw"]
\* () => { if (process.env.foo !== 'foo') throw new Error(...); return process.env.foo }
FnEnvStrict == [fn |-> "envStrict"]
\* fixup(value) { if (value[0] === '/') return null
\*                return { messages: ['must have leading slash'], value: `/${value}` } }
FnLeadingSlash == [fn |-> "leadingSlash"]
\* validate(value) { if (value[0] !== '/') return { messages: ['no leading slash'] }
\*                   if (value === '/bad') return { messages: ['Too long', 'Too simple'] } }
FnValidPath == [fn |-> "validPath"]
\* mapType(value) { if (value === '/boom') throw new Error(...); return 'file:' + value }
FnFileUrl == [fn |-> "fileUrl"]
\* shorthand(value) { return { to: value } }
FnTo == [fn |-> "to"]
\* onFixup(info, original) { original(info) }
FnCallOriginal == [fn |-> "callOriginal"]
\* onFixup() {}
FnNoop == [fn |-> "noop"]

Correction(value, messages) == Obj(<< <<"messages", Arr(messages)>>, <<"value", value>> >>)
Violation(messages) == Obj(<< <<"messages", Arr(messages)>> >>)

\* f(arg), with process.env.foo = env
Call(f, arg, env) ==
  CASE f.fn = "c" -> Ret(f.x)
    [] f.fn = "envFoo" -> Ret(Str(env))
    [] f.fn = "throw" -> Thrown
    [] f.fn = "envStrict" -> IF env = "foo" THEN Ret(Str(env)) ELSE Thrown
    [] f.fn = "leadingSlash" ->
         IF ~IsStr(arg) THEN Thrown   \* undefined[0] is a TypeError
         ELSE IF StartsWithSlash(arg.str) THEN Ret(Null)
         ELSE Ret(Correction(Str("/" \o arg.str), <<"must have leading slash">>))
    [] f.fn = "validPath" ->
         IF ~IsStr(arg) THEN Thrown
         ELSE IF ~StartsWithSlash(arg.str) THEN Ret(Violation(<<"no leading slash">>))
         ELSE IF arg = Str("/bad") THEN Ret(Violation(<<"Too long", "Too simple">>))
         ELSE Ret(Undefined)
    [] f.fn = "fileUrl" ->
         IF ~IsStr(arg) \/ arg = Str("/boom") THEN Thrown
         ELSE Ret(Str("file:" \o arg.str))
    [] f.fn = "to" -> Ret(Obj(<< <<"to", arg>> >>))
    [] OTHER -> Ret(Undefined)

\* specifier.k is present (not undefined)
Has(specifier, k) == k \in DOMAIN specifier

-----------------------------------------------------------------------------
(* Initializer *)

initMetadataField(value) == [type |-> "leaf", from |-> "initial", value |-> value, initial |-> value]

\* Lo.cloneDeep yields an equal value that shares nothing with the original.
initMetadataRecord(value) == [type |-> "record", from |-> "initial", value |-> value, initial |-> value]

\* Returns [val, m].
runTypeMapper(typeMapper, inputFieldValue, inputFieldName, m) ==
  LET r == IF IsFunction(typeMapper) THEN Call(typeMapper, inputFieldValue, m.env) ELSE Thrown
  IN IF r.ok THEN [val |-> r.val, m |-> m]
     ELSE [val |-> Undefined, m |-> Throw(m, "TypeMapperError", inputFieldName)]

\* The call runTypeMapper(...) = r, recorded in the trace as event ev.
Traced(ev, inputFieldName, arg, r) ==
  [val |-> r.val,
   m |-> Emit(r.m, [ev |-> ev, name |-> inputFieldName, arg |-> arg, out |-> r.val])]

\* Returns [val, m].
runInitializer(specifier, inputFieldName, data, m) ==
  IF ~Has(specifier, "initial")
    THEN IF IsUndefined(data)
           THEN [val |-> Undefined, m |-> Throw(m, "TypeError", inputFieldName)]
           ELSE [val |-> IF IsMap(data) THEN GetMap(data, inputFieldName) ELSE Undefined, m |-> m]
  ELSE IF IsFunction(specifier.initial)
    THEN LET r == Call(specifier.initial, Undefined, m.env)
             m1 == Emit(m, [ev |-> "initial", name |-> inputFieldName, out |-> r.val])
         IN IF r.ok THEN [val |-> r.val, m |-> m1]
            ELSE [val |-> Undefined, m |-> Throw(m1, "InitializerError", inputFieldName)]
  ELSE [val |-> Undefined, m |-> Throw(m, "InvalidInitializerKind", inputFieldName)]

\* Lo.mapValues(initializedNamespace, (v, k) => ({ value: v, from: 'initial', initial: v }))
SeedMetadata(initializedNamespace) ==
  Map([k \in Keys(initializedNamespace) |->
        [value |-> ToData(Get(initializedNamespace, k)), from |-> "initial",
         initial |-> ToData(Get(initializedNamespace, k))]])

\* Objects a property can be assigned on: a tree object, or a function object
\* (an inherited Object.prototype method: the assignment lands on that shared
\* function and is not part of any tree).
Assignable(d) == IsMap(d) \/ IsFunction(d)
GetAt(d, k) == IF IsMap(d) THEN GetMap(d, k) ELSE Undefined
PutAt(d, k, v) == IF IsMap(d) THEN PutMap(d, k, v) ELSE d

\* node.k = v on a metadata node
Assign(node, k, v) == [j \in DOMAIN node \cup {k} |-> IF j = k THEN v ELSE node[j]]

Out(data, metadata, m) == [data |-> data, metadata |-> metadata, m |-> m]

-----------------------------------------------------------------------------
(* Resolver: the leaf pipeline *)

FixupInfo(name, before, after, messages) ==
  [name |-> name, before |-> before, after |-> after, messages |-> messages]

\* function onFixup(info): log.warn(...)
onFixup(info, m) == Emit(m, [ev |-> "warn", info |-> info])

\* options.onFixup(fixupInfo, onFixup) inside try/catch, or onFixup(fixupInfo)
NotifyFixup(options, fixupInfo, inputFieldName, m) ==
  IF Has(options, "onFixup")
    THEN LET m1 == Emit(m, [ev |-> "onFixup", info |-> fixupInfo])
         IN CASE options.onFixup = FnThrow -> Throw(m1, "OnFixupError", inputFieldName)
              [] options.onFixup = FnCallOriginal -> onFixup(fixupInfo, m1)
              [] OTHER -> m1
    ELSE onFixup(fixupInfo, m)

\* Mutant: the notification reports the corrected value as `before`.
RunFixupsReportingAfter(options, specifier, inputFieldValue, inputFieldName, m) ==
  IF ~Has(specifier, "fixup") THEN [val |-> inputFieldValue, m |-> m]
  ELSE
    LET r == Call(specifier.fixup, inputFieldValue, m.env)
        m1 == Emit(m, [ev |-> "fixup", name |-> inputFieldName, arg |-> inputFieldValue, out |-> r.val])
    IN IF ~r.ok THEN [val |-> inputFieldValue, m |-> Throw(m1, "FixupError", inputFieldName)]
       ELSE IF ~Truthy(r.val) THEN [val |-> inputFieldValue, m |-> m1]
       ELSE [val |-> Get(r.val, "value"),
             m |-> NotifyFixup(options,
                               FixupInfo(inputFieldName, Get(r.val, "value"),
                                         Get(r.val, "value"), Get(r.val, "messages")),
                               inputFieldName, m1)]

\* Mutant: a fixup that returns null is notified like a correction.
RunFixupsNotifyingNull(options, specifier, inputFieldValue, inputFieldName, m) ==
  IF ~Has(specifier, "fixup") THEN [val |-> inputFieldValue, m |-> m]
  ELSE
    LET r == Call(specifier.fixup, inputFieldValue, m.env)
        m1 == Emit(m, [ev |-> "fixup", name |-> inputFieldName, arg |-> inputFieldValue, out |-> r.val])
    IN IF ~r.ok THEN [val |-> inputFieldValue, m |-> Throw(m1, "FixupError", inputFieldName)]
       ELSE IF ~Truthy(r.val)
         THEN [val |-> inputFieldValue,
               m |-> NotifyFixup(options,
                                 FixupInfo(inputFieldName, inputFieldValue,
                                           inputFieldValue, Arr(<<>>)),
                                 inputFieldName, m1)]
       ELSE [val |-> Get(r.val, "value"),
             m |-> NotifyFixup(options,
                               FixupInfo(inputFieldName, inputFieldValue,
                                         Get(r.val, "value"), Get(r.val, "messages")),
                               inputFieldName, m1)]

\* "Run fixups". Returns [val, m].
RunFixups(options, specifier, inputFieldValue, inputFieldName, m) ==
  IF ~Has(specifier, "fixup") THEN [val |-> inputFieldValue, m |-> m]
  ELSE
    LET r == Call(specifier.fixup, inputFieldValue, m.env)
        m1 == Emit(m, [ev |-> "fixup", name |-> inputFieldName, arg |-> inputFieldValue, out |-> r.val])
    IN IF ~r.ok THEN [val |-> inputFieldValue, m |-> Throw(m1, "FixupError", inputFieldName)]
       ELSE IF ~Truthy(r.val) THEN [val |-> inputFieldValue, m |-> m1]
       ELSE [val |-> Get(r.val, "value"),
             m |-> NotifyFixup(options,
                               FixupInfo(inputFieldName, inputFieldValue,
                                         Get(r.val, "value"), Get(r.val, "messages")),
                               inputFieldName, m1)]

\* inspect(value), for the values the model's callers validate
Inspect(v) == IF IsStr(v) THEN "'" \o v.str \o "'" ELSE "[object]"

\* q.join(sep), as the sequence of its pieces
RECURSIVE Join(_, _)
Join(q, sep) ==
  IF q = <<>> THEN <<>>
  ELSE IF Len(q) = 1 THEN q
  ELSE <<Head(q), sep>> \o Join(Tail(q), sep)

\* `Your setting "${name}" failed validation with value ${inspect(value)}:\n\n- ${messages.join('\n- ')}`
\* as the sequence of its pieces
ValidationMessage(inputFieldName, resolvedValue, messages) ==
  <<"Your setting \"", inputFieldName, "\" failed validation with value ",
    Inspect(resolvedValue), ":\n\n- ">> \o Join(messages, "\n- ")

\* Mutant: the error reports only the first message of the violation.
RunValidatorsFirstMessageOnly(specifier, resolvedValue, inputFieldName, m) ==
  IF ~Has(specifier, "validate") THEN m
  ELSE
    LET r == Call(specifier.validate, resolvedValue, m.env)
        m1 == Emit(m, [ev |-> "validate", name |-> inputFieldName, arg |-> resolvedValue, out |-> r.val])
    IN IF ~r.ok THEN Throw(m1, "ValidationRuntimeError", inputFieldName)
       ELSE IF Truthy(r.val)
         THEN [Throw(m1, "ValidationFailed", inputFieldName) EXCEPT
                 !.err = [kind |-> "ValidationFailed", name |-> inputFieldName,
                          messages |-> Get(r.val, "messages"),
                          text |-> ValidationMessage(inputFieldName, resolvedValue,
                                                     <<Head(Get(r.val, "messages").arr)>>)]]
       ELSE m1

\* "Run validators". Returns m.
RunValidators(specifier, resolvedValue, inputFieldName, m) ==
  IF ~Has(specifier, "validate") THEN m
  ELSE
    LET r == Call(specifier.validate, resolvedValue, m.env)
        m1 == Emit(m, [ev |-> "validate", name |-> inputFieldName, arg |-> resolvedValue, out |-> r.val])
    IN IF ~r.ok THEN Throw(m1, "ValidationRuntimeError", inputFieldName)
       ELSE IF Truthy(r.val)
         THEN [Throw(m1, "ValidationFailed", inputFieldName) EXCEPT
                 !.err = [kind |-> "ValidationFailed", name |-> inputFieldName,
                          messages |-> Get(r.val, "messages"),
                          text |-> ValidationMessage(inputFieldName, resolvedValue,
                                                     Get(r.val, "messages").arr)]]
       ELSE m1

\* "Run type mappers". Returns [val, m].
RunTypeMappers(specifier, resolvedValue, inputFieldName, m) ==
  IF Has(specifier, "mapType")
    THEN Traced("mapType", inputFieldName, resolvedValue,
                runTypeMapper(specifier.mapType, resolvedValue, inputFieldName, m))
    ELSE [val |-> resolvedValue, m |-> m]

\* Mutant: the commit does not record where the value came from.
CommittedNodeKeepingFrom(node, metadataFrom, resolvedValue) ==
  IF metadataFrom = "initial"
    THEN Assign(Assign(node, "value", resolvedValue), "initial", resolvedValue)
    ELSE Assign(node, "value", resolvedValue)

\* Mutant: the commit overwrites `initial` whatever the provenance.
CommittedNodeSettingInitial(node, metadataFrom, resolvedValue) ==
  Assign(Assign(Assign(node, "value", resolvedValue), "from", metadataFrom),
         "initial", resolvedValue)

\* Mutant: the commit never assigns `initial`.
CommittedNodeKeepingInitial(node, metadataFrom, resolvedValue) ==
  Assign(Assign(node, "value", resolvedValue), "from", metadataFrom)

\* metadata[inputFieldName] after value, from (and initial) are assigned
CommittedNode(node, metadataFrom, resolvedValue) ==
  IF metadataFrom = "initial"
    THEN Assign(Assign(Assign(node, "value", resolvedValue), "from", metadataFrom),
                "initial", resolvedValue)
    ELSE Assign(Assign(node, "value", resolvedValue), "from", metadataFrom)

\* obj with the property at path p set to v, where obj has that path
RECURSIVE SetIn(_, _, _)
SetIn(obj, p, v) ==
  IF p = <<>> THEN v
  ELSE IF ~isPlainObject(obj) \/ IndexOf(obj, p[1]) = 0 THEN obj
  ELSE Obj([i \in 1..Len(obj.obj) |->
             IF i = IndexOf(obj, p[1])
               THEN <<p[1], SetIn(obj.obj[i][2], Tail(p), v)>>
               ELSE obj.obj[i]])

\* Mutant: the commit also writes the resolved value back into the input.
CommitWritingBack(metadataFrom, inputFieldName, resolvedValue, data, metadata, p, m) ==
  IF ~Assignable(data) THEN Out(data, metadata, Throw(m, "TypeError", inputFieldName))
  ELSE
    LET data1 == PutAt(data, inputFieldName, resolvedValue)
        node == IF IsNullish(metadata) THEN Undefined ELSE GetAt(metadata, inputFieldName)
        m1 == Emit([m EXCEPT !.input = SetIn(@, Append(p, inputFieldName), resolvedValue)],
                   [ev |-> "commit", path |-> Append(p, inputFieldName),
                    value |-> resolvedValue, from |-> metadataFrom])
    IN IF IsFunction(node) THEN Out(data1, metadata, m1)
       ELSE IF IsUndefined(node) THEN Out(data1, metadata, Throw(m, "TypeError", inputFieldName))
       ELSE Out(data1,
                PutAt(metadata, inputFieldName, CommittedNode(node, metadataFrom, resolvedValue)),
                m1)

\* "committing data".  p is the path of the object being resolved, kept for
\* the trace only.
Commit(metadataFrom, inputFieldName, resolvedValue, data, metadata, p, m) ==
  IF ~Assignable(data) THEN Out(data, metadata, Throw(m, "TypeError", inputFieldName))
  ELSE
    LET data1 == PutAt(data, inputFieldName, resolvedValue)
        node == IF IsNullish(metadata) THEN Undefined ELSE GetAt(metadata, inputFieldName)
        m1 == Emit(m, [ev |-> "commit", path |-> Append(p, inputFieldName),
                       value |-> resolvedValue, from |-> metadataFrom])
    IN IF IsFunction(node) THEN Out(data1, metadata, m1)
       ELSE IF IsUndefined(node) THEN Out(data1, metadata, Throw(m, "TypeError", inputFieldName))
       ELSE Out(data1,
                PutAt(metadata, inputFieldName, CommittedNode(node, metadataFrom, resolvedValue)),
                m1)

\* Mutant: the validator runs on the input before the fixup corrects it.
ResolveLeafValidatingFirst(options, metadataFrom, specifier, inputFieldValue, inputFieldName, data, metadata, p, m) ==
  LET m1 == RunValidators(specifier, inputFieldValue, inputFieldName, m)
  IN IF Failed(m1) THEN Out(data, metadata, m1)
     ELSE
       LET fixed == RunFixups(options, specifier, inputFieldValue, inputFieldName, m1)
       IN IF Failed(fixed.m) THEN Out(data, metadata, fixed.m)
          ELSE
            LET mapped == RunTypeMappers(specifier, fixed.val, inputFieldName, fixed.m)
            IN IF Failed(mapped.m) THEN Out(data, metadata, mapped.m)
               ELSE Commit(metadataFrom, inputFieldName, mapped.val, data, metadata, p, mapped.m)

\* Mutant: the type mapper runs first, fixup and validator see its result.
ResolveLeafMappingFirst(options, metadataFrom, specifier, inputFieldValue, inputFieldName, data, metadata, p, m) ==
  LET mapped == RunTypeMappers(specifier, inputFieldValue, inputFieldName, m)
  IN IF Failed(mapped.m) THEN Out(data, metadata, mapped.m)
     ELSE
       LET fixed == RunFixups(options, specifier, mapped.val, inputFieldName, mapped.m)
       IN IF Failed(fixed.m) THEN Out(data, metadata, fixed.m)
          ELSE
            LET m2 == RunValidators(specifier, fixed.val, inputFieldName, fixed.m)
            IN IF Failed(m2) THEN Out(data, metadata, m2)
               ELSE Commit(metadataFrom, inputFieldName, fixed.val, data, metadata, p, m2)

\* Mutant: the corrected value is assigned to data before it is validated and
\* mapped.
ResolveLeafAssigningEarly(options, metadataFrom, specifier, inputFieldValue, inputFieldName, data, metadata, p, m) ==
  LET fixed == RunFixups(options, specifier, inputFieldValue, inputFieldName, m)
  IN IF Failed(fixed.m) THEN Out(data, metadata, fixed.m)
     ELSE
       LET m2 == RunValidators(specifier, fixed.val, inputFieldName, fixed.m)
       IN IF Failed(m2) THEN Out(PutAt(data, inputFieldName, fixed.val), metadata, m2)
          ELSE
            LET mapped == RunTypeMappers(specifier, fixed.val, inputFieldName, m2)
            IN IF Failed(mapped.m)
                 THEN Out(PutAt(data, inputFieldName, fixed.val), metadata, mapped.m)
               ELSE Commit(metadataFrom, inputFieldName, mapped.val, data, metadata, p, mapped.m)

\* Mutant: the notification of a correction is held back until the corrected
\* value has been validated and mapped.
ResolveLeafNotifyingLate(options, metadataFrom, specifier, inputFieldValue, inputFieldName, data, metadata, p, m) ==
  LET r == IF Has(specifier, "fixup") THEN Call(specifier.fixup, inputFieldValue, m.env)
           ELSE Ret(Null)
      m1 == IF Has(specifier, "fixup")
              THEN Emit(m, [ev |-> "fixup", name |-> inputFieldName,
                            arg |-> inputFieldValue, out |-> r.val])
              ELSE m
      val == IF r.ok /\ Truthy(r.val) THEN Get(r.val, "value") ELSE inputFieldValue
  IN IF ~r.ok THEN Out(data, metadata, Throw(m1, "FixupError", inputFieldName))
     ELSE
       LET m2 == RunValidators(specifier, val, inputFieldName, m1)
       IN IF Failed(m2) THEN Out(data, metadata, m2)
          ELSE
            LET mapped == RunTypeMappers(specifier, val, inputFieldName, m2)
                m3 == IF Truthy(r.val)
                        THEN NotifyFixup(options,
                                         FixupInfo(inputFieldName, inputFieldValue, val,
                                                   Get(r.val, "messages")),
                                         inputFieldName, mapped.m)
                        ELSE mapped.m
            IN IF Failed(mapped.m) THEN Out(data, metadata, mapped.m)
               ELSE IF Failed(m3) THEN Out(data, metadata, m3)
               ELSE Commit(metadataFrom, inputFieldName, mapped.val, data, metadata, p, m3)

\* "Resolve Leaf"
ResolveLeaf(options, metadataFrom, specifier, inputFieldValue, inputFieldName, data, metadata, p, m) ==
  LET fixed == RunFixups(options, specifier, inputFieldValue, inputFieldName, m)
  IN IF Failed(fixed.m) THEN Out(data, metadata, fixed.m)
     ELSE
       LET m2 == RunValidators(specifier, fixed.val, inputFieldName, fixed.m)
       IN IF Failed(m2) THEN Out(data, metadata, m2)
          ELSE
            LET mapped == RunTypeMappers(specifier, fixed.val, inputFieldName, m2)
            IN IF Failed(mapped.m) THEN Out(data, metadata, mapped.m)
               ELSE Commit(metadataFrom, inputFieldName, mapped.val, data, metadata, p, mapped.m)

-----------------------------------------------------------------------------
(* Resolver and Initializer: the recursion over the spec tree.  Each step of  *)
(* a function that follows a recursive call is an operator of its own that    *)
(* takes the call's result.                                                   *)

RECURSIVE resolve(_, _, _, _, _, _, _, _)
RECURSIVE ResolveEntries(_, _, _, _, _, _, _, _, _)
RECURSIVE ResolveField(_, _, _, _, _, _, _, _, _)
RECURSIVE resolveNamespace(_, _, _, _, _, _, _, _, _)
RECURSIVE resolveRecord(_, _, _, _, _, _, _, _)
RECURSIVE ResolveRecordEntries(_, _, _, _, _, _, _, _, _)
RECURSIVE initialize(_, _)
RECURSIVE doInitialize(_, _, _, _)
RECURSIVE DoInitializeEntries(_, _, _, _, _)
RECURSIVE InitializeField(_, _, _, _, _)
RECURSIVE InitializeRecordEntries(_, _, _, _)

\* resolveNamespace, "expanding shorthand": [ok, val, m], val the longhand value.
\* Mutant: the shorthand is called on plain objects too.
ExpandShorthandAlways(specifier, inputFieldValue, info, m) ==
  IF Has(specifier, "shorthand")
    THEN LET r == Call(specifier.shorthand, inputFieldValue, m.env)
             m1 == Emit(m, [ev |-> "shorthand", name |-> info.path,
                            arg |-> inputFieldValue, out |-> r.val])
         IN IF r.ok THEN [val |-> r.val, m |-> m1]
            ELSE [val |-> Undefined, m |-> Throw(m1, "ShorthandError", info.path)]
    ELSE [val |-> inputFieldValue, m |-> m]

ExpandShorthand(specifier, inputFieldValue, info, m) ==
  IF ~isPlainObject(inputFieldValue) /\ Has(specifier, "shorthand")
    THEN LET r == Call(specifier.shorthand, inputFieldValue, m.env)
             m1 == Emit(m, [ev |-> "shorthand", name |-> info.path,
                            arg |-> inputFieldValue, out |-> r.val])
         IN IF r.ok THEN [val |-> r.val, m |-> m1]
            ELSE [val |-> Undefined, m |-> Throw(m1, "ShorthandError", info.path)]
    ELSE [val |-> inputFieldValue, m |-> m]

\* resolveNamespace once resolve(..., data, metadata.fields) has returned sub:
\* the namespace's data object and metadata node.
NamespaceResolved(metadata, sub) ==
  Out(sub.data,
      IF Has(metadata, "fields") THEN Assign(metadata, "fields", sub.metadata) ELSE metadata,
      sub.m)

\* Mutant: the namespace's data is replaced by what the input holds.
ResolveLonghandReplacing(options, metadataFrom, specifier, longhand, info, data, metadata, p) ==
  IF Failed(longhand.m) THEN Out(data, metadata, longhand.m)
  ELSE NamespaceResolved(metadata,
         resolve(options, metadataFrom, specifier.fields, longhand.val, EmptyMap,
                 metadata.fields, p, longhand.m))

\* resolveNamespace from the longhand value on.
ResolveLonghand(options, metadataFrom, specifier, longhand, info, data, metadata, p) ==
  IF Failed(longhand.m) THEN Out(data, metadata, longhand.m)
  ELSE IF IsNullish(metadata) THEN Out(data, metadata, Throw(longhand.m, "TypeError", info.path))
  ELSE NamespaceResolved(metadata,
         resolve(options, metadataFrom, specifier.fields, longhand.val, data,
                 IF Has(metadata, "fields") THEN metadata.fields ELSE Undefined,
                 p, longhand.m))

\* Mutant: a non-object given to a namespace without shorthand is passed on.
resolveNamespaceLenient(options, metadataFrom, specifier, inputFieldValue, info, data, metadata, p, m) ==
  ResolveLonghand(options, metadataFrom, specifier,
                  ExpandShorthand(specifier, inputFieldValue, info, m),
                  info, data, metadata, p)

resolveNamespace(options, metadataFrom, specifier, inputFieldValue, info, data, metadata, p, m) ==
  IF ~isPlainObject(inputFieldValue) /\ Has(specifier, "fields") /\ ~Has(specifier, "shorthand")
    THEN Out(data, metadata, Throw(m, "ShorthandNotSupported", info.path))
    ELSE ResolveLonghand(options, metadataFrom, specifier,
                         ExpandShorthand(specifier, inputFieldValue, info, m),
                         info, data, metadata, p)

\* Mutant: storing an entry marks the record itself as set.
StoreEntryMarkingSet(metadata, key, entry) ==
  Assign(Assign(metadata, "value", PutAt(metadata.value, key, entry)), "from", "set")

\* metadata.value[key] = entry.  In a node that initMetadataRecord made,
\* `initial` is a deep copy; in a node that Lo.mapValues made from a namespace
\* initializer's result, `value` and `initial` are one object, so the write
\* shows in both.
StoreEntry(metadata, key, entry) ==
  IF Has(metadata, "type")
    THEN Assign(metadata, "value", PutAt(metadata.value, key, entry))
    ELSE Assign(Assign(metadata, "value", PutAt(metadata.value, key, entry)),
                "initial", PutAt(metadata.value, key, entry))

\* resolveRecord, "initializing new record entry": the record's data and
\* metadata once initial = initialize(specifier.entryFields) is stored under key.
EntryInitialized(key, data, metadata, initial) ==
  IF Failed(initial.m) THEN Out(data, metadata, initial.m)
  ELSE Out(PutAt(data, key, initial.data), StoreEntry(metadata, key, initial.metadata),
           initial.m)

\* Mutant: the record's `initial` is the object its `value` is (no deep copy
\* was taken), so a write to an entry shows in both.
EntryResolvedSharingInitial(key, record, sub) ==
  Out(PutAt(record.data, key, sub.data),
      Assign(Assign(record.metadata, "value", PutAt(record.metadata.value, key, sub.metadata)),
             "initial", PutAt(record.metadata.value, key, sub.metadata)),
      sub.m)

\* The record once resolve(..., data[key], metadata.value[key]) has returned sub.
EntryResolved(key, record, sub) ==
  IF ~IsMap(sub.data) THEN Out(record.data, record.metadata, sub.m)
  ELSE Out(PutAt(record.data, key, sub.data), StoreEntry(record.metadata, key, sub.metadata),
           sub.m)

\* The call resolve(options, metadataFrom, specifier.entryFields, inputEntryValue,
\* data[key], metadata.value[key]) of resolveRecord.
ResolveEntry(options, metadataFrom, specifier, key, inputEntryValue, record, p) ==
  IF Failed(record.m) THEN record
  ELSE EntryResolved(key, record,
         resolve(options, metadataFrom, specifier.entryFields, inputEntryValue,
                 GetAt(record.data, key), GetAt(record.metadata.value, key),
                 Append(p, key), record.m))

\* Lo.forOwn: the next entry, unless this one threw.
NextRecordEntry(options, metadataFrom, specifier, entries, i, p, record) ==
  IF Failed(record.m) THEN record
  ELSE ResolveRecordEntries(options, metadataFrom, specifier, entries, i + 1,
                            record.data, record.metadata, p, record.m)

\* Mutant: every entry the input names is initialized anew, existing or not.
ResolveRecordEntriesReinitializing(options, metadataFrom, specifier, entries, i, data, metadata, p, m) ==
  IF i > Len(entries) THEN Out(data, metadata, m)
  ELSE NextRecordEntry(options, metadataFrom, specifier, entries, i, p,
         ResolveEntry(options, metadataFrom, specifier, entries[i][1], entries[i][2],
                      EntryInitialized(entries[i][1], data, metadata,
                                       initialize(specifier.entryFields, m)),
                      p))

\* The body of Lo.forOwn(inputFieldValue, ...) in resolveRecord, from entry i on.
ResolveRecordEntries(options, metadataFrom, specifier, entries, i, data, metadata, p, m) ==
  IF i > Len(entries) THEN Out(data, metadata, m)
  ELSE NextRecordEntry(options, metadataFrom, specifier, entries, i, p,
         ResolveEntry(options, metadataFrom, specifier, entries[i][1], entries[i][2],
                      IF ~Truthy(GetAt(data, entries[i][1]))
                        THEN EntryInitialized(entries[i][1], data, metadata,
                                              initialize(specifier.entryFields, m))
                        ELSE Out(data, metadata, m),
                      p))

resolveRecord(options, metadataFrom, specifier, inputFieldValue, data, metadata, p, m) ==
  IF ~isPlainObject(inputFieldValue)
    THEN Out(data, metadata, Throw(m, "RecordNotObject", ""))
  ELSE IF Len(inputFieldValue.obj) > 0 /\ (IsNullish(data) \/ IsNullish(metadata))
    THEN Out(data, metadata, Throw(m, "TypeError", ""))
  ELSE ResolveRecordEntries(options, metadataFrom, specifier, inputFieldValue.obj, 1,
                            data, metadata, p, m)

\* data and metadata of the enclosing object once resolveNamespace or
\* resolveRecord has returned sub for data[inputFieldName].
FieldResolved(inputFieldName, data, metadata, sub) ==
  Out(IF IsMap(sub.data) THEN PutAt(data, inputFieldName, sub.data) ELSE data,
      IF IsNullish(sub.metadata) THEN metadata
                                 ELSE PutAt(metadata, inputFieldName, sub.metadata),
      sub.m)

\* Mutant: a plain object given to a leaf is resolved like any other value.
ResolveFieldAcceptingObjects(options, metadataFrom, fields, inputFieldValue, inputFieldName, data, metadata, p, m) ==
  IF IsUndefined(Get(fields, inputFieldName))
    THEN Out(data, metadata, Throw(m, "UnknownSetting", inputFieldName))
  ELSE IF Has(Get(fields, inputFieldName), "fields")
    THEN IF IsNullish(data) \/ IsNullish(metadata)
           THEN Out(data, metadata, Throw(m, "TypeError", inputFieldName))
           ELSE FieldResolved(inputFieldName, data, metadata,
                  resolveNamespace(options, metadataFrom, Get(fields, inputFieldName),
                                   inputFieldValue, [path |-> inputFieldName],
                                   GetAt(data, inputFieldName), GetAt(metadata, inputFieldName),
                                   Append(p, inputFieldName), m))
  ELSE IF Has(Get(fields, inputFieldName), "entryFields")
    THEN IF IsNullish(data) \/ IsNullish(metadata)
           THEN Out(data, metadata, Throw(m, "TypeError", inputFieldName))
           ELSE FieldResolved(inputFieldName, data, metadata,
                  resolveRecord(options, metadataFrom, Get(fields, inputFieldName),
                                inputFieldValue,
                                GetAt(data, inputFieldName), GetAt(metadata, inputFieldName),
                                Append(p, inputFieldName), m))
  ELSE ResolveLeaf(options, metadataFrom, Get(fields, inputFieldName), inputFieldValue,
                   inputFieldName, data, metadata, p, m)

\* The body of Lo.forOwn(input, ...) in resolve, for one key of the input.
ResolveField(options, metadataFrom, fields, inputFieldValue, inputFieldName, data, metadata, p, m) ==
  IF IsUndefined(Get(fields, inputFieldName))
    THEN Out(data, metadata, Throw(m, "UnknownSetting", inputFieldName))
  ELSE IF /\ isPlainObject(inputFieldValue)
          /\ ~Has(Get(fields, inputFieldName), "fields")
          /\ ~Has(Get(fields, inputFieldName), "entryFields")
    THEN Out(data, metadata, Throw(m, "NotANamespace", inputFieldName))
  ELSE IF Has(Get(fields, inputFieldName), "fields")
    THEN IF IsNullish(data) \/ IsNullish(metadata)
           THEN Out(data, metadata, Throw(m, "TypeError", inputFieldName))
           ELSE FieldResolved(inputFieldName, data, metadata,
                  resolveNamespace(options, metadataFrom, Get(fields, inputFieldName),
                                   inputFieldValue, [path |-> inputFieldName],
                                   GetAt(data, inputFieldName), GetAt(metadata, inputFieldName),
                                   Append(p, inputFieldName), m))
  ELSE IF Has(Get(fields, inputFieldName), "entryFields")
    THEN IF IsNullish(data) \/ IsNullish(metadata)
           THEN Out(data, metadata, Throw(m, "TypeError", inputFieldName))
           ELSE FieldResolved(inputFieldName, data, metadata,
                  resolveRecord(options, metadataFrom, Get(fields, inputFieldName),
                                inputFieldValue,
                                GetAt(data, inputFieldName), GetAt(metadata, inputFieldName),
                                Append(p, inputFieldName), m))
  ELSE ResolveLeaf(options, metadataFrom, Get(fields, inputFieldName), inputFieldValue,
                   inputFieldName, data, metadata, p, m)

\* Lo.forOwn(input, ...): the next key, unless this one threw.
NextEntry(options, metadataFrom, fields, entries, i, p, r) ==
  IF Failed(r.m) THEN r
  ELSE ResolveEntries(options, metadataFrom, fields, entries, i + 1, r.data, r.metadata, p, r.m)

ResolveEntries(options, metadataFrom, fields, entries, i, data, metadata, p, m) ==
  IF i > Len(entries) THEN Out(data, metadata, m)
  ELSE NextEntry(options, metadataFrom, fields, entries, i, p,
         ResolveField(options, metadataFrom, fields, entries[i][2], entries[i][1],
                      data, metadata, p, m))

\* The entries of the input whose keys the spec has, in the key order of the
\* spec, then the others.
SpecOrder(fields, entries) ==
  LET InSpec(e) == e[1] \in Keys(fields)
      NotInSpec(e) == e[1] \notin Keys(fields)
      Present(f) == \E i \in 1..Len(entries) : entries[i][1] = f[1]
      Given(f) == entries[CHOOSE i \in 1..Len(entries) : entries[i][1] = f[1]]
      known == SelectSeq(fields.obj, Present)
  IN [i \in 1..Len(known) |-> Given(known[i])] \o SelectSeq(entries, NotInSpec)

\* Mutant: the input is walked in the key order of the spec.
resolveInSpecOrder(options, metadataFrom, fields, input, data, metadata, p, m) ==
  ResolveEntries(options, metadataFrom, fields,
                 IF isPlainObject(input) THEN SpecOrder(fields, input.obj) ELSE <<>>,
                 1, data, metadata, p, m)

resolve(options, metadataFrom, fields, input, data, metadata, p, m) ==
  ResolveEntries(options, metadataFrom, fields,
                 IF isPlainObject(input) THEN input.obj ELSE <<>>, 1, data, metadata, p, m)

\* doInitialize, record: acc once the entry k, initialized and then resolved
\* against the seed value, is r.
SeedEntryResolved(k, acc, r) ==
  IF Failed(r.m) THEN Out(acc.data, acc.metadata, r.m)
  ELSE Out(PutMap(acc.data, k, r.data), PutMap(acc.metadata, k, r.metadata), r.m)

\* Mutant: the seed is resolved like a change, with provenance 'set'.
ResolveSeedAsSet(specifier, v, initial) ==
  IF Failed(initial.m) THEN initial
  ELSE resolve(EmptyFn, "set", specifier.entryFields, v,
               initial.data, initial.metadata, <<>>, initial.m)

\* resolve({}, 'initial', specifier.entryFields, v, initial.data, initial.metadata)
ResolveSeed(specifier, v, initial) ==
  IF Failed(initial.m) THEN initial
  ELSE resolve(EmptyFn, "initial", specifier.entryFields, v,
               initial.data, initial.metadata, <<>>, initial.m)

NextSeedEntry(specifier, entries, i, acc) ==
  IF Failed(acc.m) THEN acc ELSE InitializeRecordEntries(specifier, entries, i + 1, acc)

\* The reduce over the entries of the record initializer's result:
\* acc = { data, metadata } of the record, from entry i on.
InitializeRecordEntries(specifier, entries, i, acc) ==
  IF i > Len(entries) THEN acc
  ELSE NextSeedEntry(specifier, entries, i,
         SeedEntryResolved(entries[i][1], acc,
           ResolveSeed(specifier, entries[i][2], initialize(specifier.entryFields, acc.m))))

\* specifier.initial?.() ?? {} of a namespace: not run through runInitializer.
\* Returns [val, m].
InitializeNamespace(specifier, inputFieldName, m) ==
  IF ~Has(specifier, "initial") THEN [val |-> EmptyObj, m |-> m]
  ELSE IF ~IsFunction(specifier.initial)
    THEN [val |-> EmptyObj, m |-> Throw(m, "TypeError", inputFieldName)]
  ELSE LET r == Call(specifier.initial, Undefined, m.env)
           m1 == Emit(m, [ev |-> "initial", name |-> inputFieldName, out |-> r.val])
       IN IF ~r.ok THEN [val |-> EmptyObj, m |-> Throw(m1, "HookThrew", inputFieldName)]
          ELSE [val |-> IF IsNullish(r.val) THEN EmptyObj ELSE r.val, m |-> m1]

\* metadata[inputFieldName] ?? { fields: Lo.mapValues(initializedNamespace, ...) }
NamespaceNode(metadata, inputFieldName, initializedNamespace) ==
  Coalesce(GetAt(metadata, inputFieldName), [fields |-> SeedMetadata(initializedNamespace)])

\* data[inputFieldName] ?? initializedNamespace
NamespaceData(data, inputFieldName, initializedNamespace) ==
  Coalesce(GetAt(data, inputFieldName), ToData(initializedNamespace))

\* The enclosing data and metadata once doInitialize(specifier.fields,
\* data[inputFieldName], metadata[inputFieldName].fields) has returned sub.
NamespaceInitialized(inputFieldName, data, metadata, node, sub) ==
  Out(PutAt(data, inputFieldName, sub.data),
      PutAt(metadata, inputFieldName,
            IF Has(node, "fields") THEN Assign(node, "fields", sub.metadata) ELSE node),
      sub.m)

\* doInitialize, namespace, from the initializer's result on.
InitializeFields(inputFieldName, specifier, data, metadata, initializedNamespace) ==
  IF Failed(initializedNamespace.m) THEN Out(data, metadata, initializedNamespace.m)
  ELSE IF ~Assignable(data) \/ IsNullish(metadata)
    THEN Out(data, metadata, Throw(initializedNamespace.m, "TypeError", inputFieldName))
  ELSE NamespaceInitialized(inputFieldName, data, metadata,
         NamespaceNode(metadata, inputFieldName, initializedNamespace.val),
         doInitialize(specifier.fields,
                      NamespaceData(data, inputFieldName, initializedNamespace.val),
                      IF Has(NamespaceNode(metadata, inputFieldName, initializedNamespace.val), "fields")
                        THEN NamespaceNode(metadata, inputFieldName, initializedNamespace.val).fields
                        ELSE Undefined,
                      initializedNamespace.m))

\* doInitialize, record: the enclosing data and metadata once the seeded
\* entries are initialized.
RecordInitialized(inputFieldName, data, metadata, initialRecordInitialized) ==
  IF Failed(initialRecordInitialized.m) THEN Out(data, metadata, initialRecordInitialized.m)
  ELSE IF ~Assignable(data) \/ IsNullish(metadata)
    THEN Out(data, metadata, Throw(initialRecordInitialized.m, "TypeError", inputFieldName))
  ELSE Out(PutAt(data, inputFieldName, initialRecordInitialized.data),
           PutAt(metadata, inputFieldName,
                 Coalesce(GetAt(metadata, inputFieldName),
                          initMetadataRecord(initialRecordInitialized.metadata))),
           initialRecordInitialized.m)

\* doInitialize, record, from the initializer's result on.
InitializeRecord(inputFieldName, specifier, data, metadata, initialRecord) ==
  IF Failed(initialRecord.m) THEN Out(data, metadata, initialRecord.m)
  ELSE RecordInitialized(inputFieldName, data, metadata,
         InitializeRecordEntries(specifier,
                                 IF isPlainObject(initialRecord.val)
                                   THEN initialRecord.val.obj ELSE <<>>,
                                 1, Out(EmptyMap, EmptyMap, initialRecord.m)))

\* Mutant: a leaf whose initial value is undefined gets no key in data.
LeafInitializedSkippingUndefined(inputFieldName, data, metadata, mapped) ==
  IF Failed(mapped.m) THEN Out(data, metadata, mapped.m)
  ELSE IF ~Assignable(data) \/ IsNullish(metadata)
    THEN Out(data, metadata, Throw(mapped.m, "TypeError", inputFieldName))
  ELSE Out(IF IsUndefined(mapped.val) THEN data ELSE PutAt(data, inputFieldName, mapped.val),
           PutAt(metadata, inputFieldName, initMetadataField(mapped.val)),
           mapped.m)

\* doInitialize, leaf, once the initializer and the type mapper have run.
LeafInitialized(inputFieldName, data, metadata, mapped) ==
  IF Failed(mapped.m) THEN Out(data, metadata, mapped.m)
  ELSE IF ~Assignable(data) \/ IsNullish(metadata)
    THEN Out(data, metadata, Throw(mapped.m, "TypeError", inputFieldName))
  ELSE Out(PutAt(data, inputFieldName, mapped.val),
           PutAt(metadata, inputFieldName, initMetadataField(mapped.val)),
           mapped.m)

\* Mutant: the initializer's output is fixed up and validated like an input.
MapInitialResolving(specifier, inputFieldName, initial) ==
  IF Failed(initial.m) THEN initial
  ELSE
    LET fixed == RunFixups(EmptyFn, specifier, initial.val, inputFieldName, initial.m)
    IN IF Failed(fixed.m) THEN fixed
       ELSE IF Failed(RunValidators(specifier, fixed.val, inputFieldName, fixed.m))
         THEN [val |-> fixed.val,
               m |-> RunValidators(specifier, fixed.val, inputFieldName, fixed.m)]
       ELSE RunTypeMappers(specifier, fixed.val, inputFieldName,
                           RunValidators(specifier, fixed.val, inputFieldName, fixed.m))

\* if (specifier.mapType) value = runTypeMapper(...), after runInitializer
MapInitial(specifier, inputFieldName, initial) ==
  IF Failed(initial.m) \/ ~Has(specifier, "mapType") THEN initial
  ELSE Traced("mapInitial", inputFieldName, initial.val,
              runTypeMapper(specifier.mapType, initial.val, inputFieldName, initial.m))

\* The reducer of doInitialize for one [inputFieldName, specifier] entry.
InitializeField(inputFieldName, specifier, data, metadata, m) ==
  IF Has(specifier, "fields")
    THEN InitializeFields(inputFieldName, specifier, data, metadata,
                          InitializeNamespace(specifier, inputFieldName, m))
  ELSE IF Has(specifier, "entryFields")
    THEN InitializeRecord(inputFieldName, specifier, data, metadata,
                          IF Has(specifier, "initial") /\ Truthy(specifier.initial)
                            THEN runInitializer(specifier, inputFieldName, data, m)
                            ELSE [val |-> EmptyObj, m |-> m])
  ELSE LeafInitialized(inputFieldName, data, metadata,
                       MapInitial(specifier, inputFieldName,
                                  runInitializer(specifier, inputFieldName, data, m)))

NextInitialize(entries, i, r) ==
  IF Failed(r.m) THEN r ELSE DoInitializeEntries(entries, i + 1, r.data, r.metadata, r.m)

\* Lo.chain(fields).entries().reduce(...) from entry i on.
DoInitializeEntries(entries, i, data, metadata, m) ==
  IF i > Len(entries) THEN Out(data, metadata, m)
  ELSE NextInitialize(entries, i,
                      InitializeField(entries[i][1], entries[i][2], data, metadata, m))

doInitialize(fields, data, metadata, m) ==
  DoInitializeEntries(fields.obj, 1, data, metadata, m)

initialize(fields, m) == doInitialize(fields, EmptyMap, EmptyMap, m)

-----------------------------------------------------------------------------
(* Spec Validator and original() *)

RECURSIVE validateSpec(_)
RECURSIVE ValidateSpecEntries(_, _)

\* Mutant: the validator does not look into the entryFields of records.
ValidateSpecEntriesSkippingRecords(entries, i) ==
  IF i > Len(entries) THEN NoErr
  ELSE
    LET name == entries[i][1]
        specifier == entries[i][2]
        e == IF Has(specifier, "fields") THEN validateSpec(specifier.fields)
             ELSE IF Has(specifier, "entryFields") THEN NoErr
             ELSE IF Has(specifier, "mapType") /\ ~IsFunction(specifier.mapType)
               THEN Err("InvalidTypeMapper", name)
             ELSE NoErr
    IN IF e.kind # "none" THEN e ELSE ValidateSpecEntries(entries, i + 1)

\* Lo.forOwn(spec, ...) from entry i on; the error thrown, or NoErr.
ValidateSpecEntries(entries, i) ==
  IF i > Len(entries) THEN NoErr
  ELSE
    LET name == entries[i][1]
        specifier == entries[i][2]
        e == IF Has(specifier, "fields") THEN validateSpec(specifier.fields)
             ELSE IF Has(specifier, "entryFields") THEN validateSpec(specifier.entryFields)
             ELSE IF Has(specifier, "mapType") /\ ~IsFunction(specifier.mapType)
               THEN Err("InvalidTypeMapper", name)
             ELSE NoErr
    IN IF e.kind # "none" THEN e ELSE ValidateSpecEntries(entries, i + 1)

validateSpec(spec) == ValidateSpecEntries(spec.obj, 1)

isDevelopment(env) == env # "production"

RECURSIVE metadataToData(_, _)
metadataToData(metadataTree, copy) ==
  Map([name \in OwnKeys(copy) \cup OwnKeys(metadataTree) |->
        IF name \in OwnKeys(metadataTree)
          THEN LET info == metadataTree.map[name]
               IN IF Has(info, "fields") THEN metadataToData(info.fields, EmptyMap)
                                         ELSE info.initial
          ELSE copy.map[name]])

-----------------------------------------------------------------------------
(* The specs and options the model's callers pass to create *)

O1(k, v) == Obj(<< <<k, v>> >>)
O2(k1, v1, k2, v2) == Obj(<< <<k1, v1>>, <<k2, v2>> >>)
O3(k1, v1, k2, v2, k3, v3) == Obj(<< <<k1, v1>>, <<k2, v2>>, <<k3, v3>> >>)

\* { a: { initial: c('foo') },
\*   path: { initial: c('/foo'), fixup, validate, mapType },
\*   e: { initial: () => process.env.foo } }
LeafFields ==
  O3("a", [initial |-> c(Str("foo"))],
     "path", [initial |-> c(Str("/foo")), fixup |-> FnLeadingSlash,
              validate |-> FnValidPath, mapType |-> FnFileUrl],
     "e", [initial |-> FnEnvFoo])

\* { a: { fields: { x: { initial: c('foo') }, y: { initial: c('bar') },
\*                  c: { fields: { p: { initial: c('foo') }, q: {} } } } },
\*   s: { shorthand: (value) => ({ to: value }),
\*        fields: { to: { initial: c('/foo'), fixup }, o: { initial: c('bar') } } },
\*   t: { shorthand() { throw ... }, fields: { b: { initial: c('') } } } }
NsFields ==
  O3("a", [fields |-> O3("x", [initial |-> c(Str("foo"))],
                         "y", [initial |-> c(Str("bar"))],
                         "c", [fields |-> O2("p", [initial |-> c(Str("foo"))],
                                             "q", EmptyFn)])],
     "s", [shorthand |-> FnTo,
           fields |-> O2("to", [initial |-> c(Str("/foo")), fixup |-> FnLeadingSlash],
                         "o", [initial |-> c(Str("bar"))])],
     "t", [shorthand |-> FnThrow, fields |-> O1("b", [initial |-> c(Str(""))])])

\* { r: { entryFields: { f: { initial: c('/foo'), fixup }, g: { initial: c('bar') } },
\*        initial: c({ k1: { f: 'bar' } }) },
\*   n: { entryFields: { h: { initial: c('foo') } } } }
RecFields ==
  O2("r", [entryFields |-> O2("f", [initial |-> c(Str("/foo")), fixup |-> FnLeadingSlash],
                              "g", [initial |-> c(Str("bar"))]),
           initial |-> c(O1("k1", O1("f", Str("bar"))))],
     "n", [entryFields |-> O1("h", [initial |-> c(Str("foo"))])])

\* { w: { initial: c({ x: 'bar' }),
\*        fields: { x: {}, y: { initial: c('foo') } } } }
SeedFields ==
  O1("w", [initial |-> c(O1("x", Str("bar"))),
           fields |-> O2("x", EmptyFn, "y", [initial |-> c(Str("foo"))])])

\* { u: { initial: c('foo'), fixup, validate },
\*   v: { initial: c('/foo'), fixup },
\*   m: { entryFields: { f: { initial: c('/foo'), fixup, validate: () => null } },
\*        initial: c({ k1: { f: 'bar' } }) } }
FixFields ==
  O3("u", [initial |-> c(Str("foo")), fixup |-> FnLeadingSlash, validate |-> FnValidPath],
     "v", [initial |-> c(Str("/foo")), fixup |-> FnLeadingSlash],
     "m", [entryFields |-> O1("f", [initial |-> c(Str("/foo")), fixup |-> FnLeadingSlash,
                                    validate |-> c(Null)]),
           initial |-> c(O1("k1", O1("f", Str("bar"))))])

\* The same spec created with no onFixup, with onFixup() {}, with the handler
\* that calls the original one, and with a handler that throws.
FixConfigs == {"fix", "fixNoop", "fixCall", "fixThrow"}

\* Specs whose `initial` is not a function, or is a function that throws:
\*   staticLeaf { a: { initial: c('foo') }, b: { initial: 'foo' } }
\*   staticRec  { r: { entryFields: { f: { initial: c('foo') } }, initial: { k1: {} } } }
\*   nullRec    { r: { entryFields: { f: { initial: c('foo') } }, initial: null } }
\*   throwLeaf  { a: { initial: c('foo') }, b: { initial() { throw ... } } }
\*   throwRec   { r: { entryFields: { f: { initial: c('foo') } }, initial() { throw ... } } }
\*   throwNs    { w: { initial() { throw ... }, fields: { x: {} } } }
\*   envThrow   { a: { initial: c('foo') }, e: { initial: envStrict } }
InitialConfigs ==
  {"staticLeaf", "staticRec", "nullRec", "throwLeaf", "throwRec", "throwNs", "envThrow"}

InitialFields(id) ==
  LET leaf(initial) == O2("a", [initial |-> c(Str("foo"))], "b", [initial |-> initial])
      rec(initial) == O1("r", [entryFields |-> O1("f", [initial |-> c(Str("foo"))]),
                               initial |-> initial])
  IN CASE id = "staticLeaf" -> leaf(Str("foo"))
       [] id = "staticRec" -> rec(O1("k1", EmptyObj))
       [] id = "nullRec" -> rec(Null)
       [] id = "throwLeaf" -> leaf(FnThrow)
       [] id = "throwRec" -> rec(FnThrow)
       [] id = "throwNs" -> O1("w", [initial |-> FnThrow, fields |-> O1("x", EmptyFn)])
       [] id = "envThrow" -> O2("a", [initial |-> c(Str("foo"))], "e", [initial |-> FnEnvStrict])

\* Specs with a leaf whose mapType is the string 'foo', declared after a leaf
\* that has an initializer:
\*   mapTop { a: { initial: c('foo') }, p: { mapType: 'foo' } }
\*   mapNs  { n: { fields: { a: { initial: c('foo') }, p: { mapType: 'foo' } } } }
\*   mapRec { a: { initial: c('foo') },
\*            r: { entryFields: { p: { mapType: 'foo' } }, initial: c({ k1: {} }) } }
MapTypeConfigs == {"mapTop", "mapNs", "mapRec"}

MapTypeFields(id) ==
  LET a == [initial |-> c(Str("foo"))]
      p == [mapType |-> Str("foo")]
  IN CASE id = "mapTop" -> O2("a", a, "p", p)
       [] id = "mapNs" -> O1("n", [fields |-> O2("a", a, "p", p)])
       [] id = "mapRec" -> O2("a", a, "r", [entryFields |-> O1("p", p),
                                            initial |-> c(O1("k1", EmptyObj))])

\* { r: { entryFields: { f: { initial: c('/foo'), fixup, validate, mapType },
\*                        g: { initial: c('bar') } },
\*        initial: c({ k1: { f: seed } }) },
\*   k: { initial: c('foo'), validate() { throw ... } } }
PipeFields(seed) ==
  O2("r", [entryFields |-> O2("f", [initial |-> c(Str("/foo")), fixup |-> FnLeadingSlash,
                                    validate |-> FnValidPath, mapType |-> FnFileUrl],
                              "g", [initial |-> c(Str("bar"))]),
           initial |-> c(O1("k1", O1("f", seed)))],
     "k", [initial |-> c(Str("foo")), validate |-> FnThrow])

\* recPipe seeds an entry with f: 'bar', recBad with f: 'bad'.
PipeConfigs == {"recPipe", "recBad"}

\* { w: { initial: c({ r: { k1: { f: 'bar' } } }),
\*        fields: { r: { entryFields: { f: { initial: c('foo') } } } } } }
SeedRecFields ==
  O1("w", [initial |-> c(O1("r", O1("k1", O1("f", Str("bar"))))),
           fields |-> O1("r", [entryFields |-> O1("f", [initial |-> c(Str("foo"))])])])

\* Specs whose namespace initializer returns a value for a nested namespace,
\* or for a leaf that has an initializer of its own:
\*   seedNs  { w: { initial: c({ c: { p: 'bar' } }),
\*                  fields: { c: { fields: { p: {} } } } } }
\*   seedOwn { w: { initial: c({ x: 'bar' }),
\*                  fields: { x: { initial: c('foo') }, y: {}, z: { initial: c('foo') } } } }
SeedingConfigs == {"seedNs", "seedOwn"}

SeedingFields(id) ==
  CASE id = "seedNs" ->
         O1("w", [initial |-> c(O1("c", O1("p", Str("bar")))),
                  fields |-> O1("c", [fields |-> O1("p", EmptyFn)])])
    [] id = "seedOwn" ->
         O1("w", [initial |-> c(O1("x", Str("bar"))),
                  fields |-> O3("x", [initial |-> c(Str("foo"))], "y", EmptyFn,
                                "z", [initial |-> c(Str("foo"))])])

\* startMessage() {}
FnSilent == [fn |-> "silent"]
FnStartMessage == [fn |-> "startMessage"]

\* The settings of an app under test: the server settings that
\* createTestContext forces, one it leaves alone, and a setting outside server.
\* { server: { fields: { port: { initial: c(4000) }, playground: { initial: c(true) },
\*                        startMessage: { initial: c(startMessage) },
\*                        host: { initial: c('foo') } } },
\*   a: { initial: c('foo') } }
ServerFields ==
  O2("server",
     [fields |->
        Obj(<< <<"port", [initial |-> c(Num(4000))]>>,
               <<"playground", [initial |-> c(Bool(TRUE))]>>,
               <<"startMessage", [initial |-> c(FnStartMessage)]>>,
               <<"host", [initial |-> c(Str("foo"))]>> >>)],
     "a", [initial |-> c(Str("foo"))])

Configs ==
  {"leaf", "ns", "rec", "seed", "seedRec", "server"} \cup SeedingConfigs \cup FixConfigs \cup InitialConfigs
    \cup MapTypeConfigs \cup PipeConfigs

FieldsOf(id) ==
  CASE id = "leaf" -> LeafFields
    [] id = "ns" -> NsFields
    [] id = "rec" -> RecFields
    [] id = "seed" -> SeedFields
    [] id \in FixConfigs -> FixFields
    [] id \in InitialConfigs -> InitialFields(id)
    [] id \in MapTypeConfigs -> MapTypeFields(id)
    [] id = "recPipe" -> PipeFields(Str("bar"))
    [] id = "recBad" -> PipeFields(Str("bad"))
    [] id = "seedRec" -> SeedRecFields
    [] id \in SeedingConfigs -> SeedingFields(id)
    [] id = "server" -> ServerFields

\* the rest of create's argument: {} or { onFixup }
OptionsOf(id) ==
  CASE id = "fixNoop" -> [onFixup |-> FnNoop]
    [] id = "fixCall" -> [onFixup |-> FnCallOriginal]
    [] id = "fixThrow" -> [onFixup |-> FnThrow]
    [] OTHER -> EmptyFn

\* Whether some initializer of the spec reads process.env.foo.
ReadsEnv(id) == id \in {"leaf", "envThrow"}

\* The values of process.env.NODE_ENV a spec is created under.
NodeEnvs(id) == IF id \in MapTypeConfigs THEN {"development", "production"} ELSE {"development"}

\* The number of distinct entry keys callers add to a record.
MaxEntries == 2
EntryKeys == {"k" \o ToString(i) : i \in 1..MaxEntries}

\* The inputs the model's callers pass to change, per spec.
LeafInputs ==
  {O1("a", Str("bar")), O1("a", Str("foo")), O1("a", Arr(<<"bar">>)),
   O1("a", Arr(<<"foo", "foo">>)),
   O2("e", Str("bar"), "a", EmptyObj), O2("path", Str("bad"), "a", O1("b", Str(""))),
   O1("a", O1("b", Str(""))),
   O1("path", Str("foo")), O1("path", Str("/bar")), O1("path", Str("bad")),
   O1("path", Str("boom")),
   O1("e", Str("bar")),
   O1("z", Str("foo")), O1("toString", Str("foo")),
   O2("a", Str("bar"), "path", Str("bad")), O2("path", Str("bad"), "a", Str("bar")),
   O2("path", Str("bad"), "z", Str("foo")), O2("a", Str("bar"), "z", Str("foo")),
   EmptyObj}

NsInputs ==
  {O1("a", O1("x", Str("bar"))), O1("a", O1("y", Str("foo"))),
   O1("a", O1("c", O1("p", Str("bar")))), O1("a", O1("c", O1("q", Str("foo")))),
   O1("a", O2("x", Str("bar"), "c", O1("q", Str("bar")))),
   O1("a", Str("foo")), O1("a", O1("c", Str("foo"))),
   O1("a", O1("z", Str("foo"))), O1("a", O1("c", O1("z", Str("foo")))),
   O1("a", EmptyObj), O1("a", O1("x", O1("z", Str("foo")))),
   O1("s", Str("foo")), O1("s", Str("/bar")),
   O1("s", O1("to", Str("foo"))), O1("s", O1("to", Str("/bar"))),
   O1("s", O1("o", Str("foo"))),
   O1("t", Str("foo")), O1("t", O1("b", Str("foo"))),
   O2("a", O1("x", Str("bar")), "t", Str("foo"))}

RecInputs ==
  UNION {{O1("r", O1(k, O1("f", Str("foo")))), O1("r", O1(k, O1("f", Str("/bar")))),
          O1("r", O1(k, O1("g", Str("foo")))), O1("r", O1(k, EmptyObj)),
          O1("r", O1(k, O1("z", Str("foo")))),
          O1("n", O1(k, O1("h", Str("bar"))))} : k \in EntryKeys}
  \cup {O1("r", O2("k1", O1("g", Str("foo")), "k2", O1("z", Str("foo")))),
        O1("r", Str("foo")), O1("z", Str("foo")),
        O1("r", O1("toString", O1("g", Str("foo"))))}

SeedInputs ==
  {O1("w", O1("x", Str("foo"))), O1("w", O1("y", Str("bar"))),
   O1("w", Str("foo")), O1("w", O1("z", Str("foo")))}

FixInputs ==
  {O1("u", Str("bar")), O1("u", Str("/bad")), O1("u", Str("/bar")),
   O1("v", Str("foo")), O1("v", Str("/bar")),
   O2("v", Str("foo"), "u", Str("bar")), O2("u", Str("bar"), "v", Str("foo")),
   O2("v", Str("bar"), "u", Str("/bad")),
   O2("m", O1("k1", O1("f", Str("bad"))), "v", Str("foo")),
   O1("m", O2("k2", O1("f", Str("foo")), "k1", O1("f", Str("boom"))))}

PipeInputs ==
  {O1("r", O1("k1", O1("f", Str("foo")))), O1("r", O1("k1", O1("f", Null))),
   O1("r", O1("k1", O1("f", Str("bad")))), O1("r", O1("k1", O1("f", Str("boom")))),
   O1("r", O1("k2", O1("g", Str("foo")))), O1("k", Str("bar"))}

\* What the app under test passes to settings.change.
ServerInputs ==
  {O1("server", O1("port", Num(5000))),
   O1("server", O2("playground", Bool(TRUE), "host", Str("bar"))),
   O2("server", O2("host", Str("bar"), "startMessage", FnStartMessage), "a", Str("bar")),
   O1("server", Null),
   O2("server", Undefined, "a", Str("bar")),
   O1("a", Str("bar")),
   O2("a", Str("bar"), "z", Str("foo"))}

InputsOf(id) ==
  CASE id = "leaf" -> LeafInputs
    [] id = "ns" -> NsInputs
    [] id = "rec" -> RecInputs
    [] id = "seed" -> SeedInputs
    [] id \in FixConfigs -> FixInputs
    [] id \in PipeConfigs -> PipeInputs
    [] id = "seedRec" -> {O1("w", O1("r", O1("k1", O1("f", Str("foo")))))}
    [] id = "nullRec" -> {O1("r", O1("k1", O1("f", Str("bar"))))}
    [] id = "seedOwn" -> {O1("w", O1("x", Str("/bar"))), O1("w", O1("y", Str("foo")))}
    [] id = "server" -> ServerInputs
    [] OTHER -> {O1("a", Str("bar"))}

EnvValues == {"foo", "bar"}

-----------------------------------------------------------------------------
(* The Manager *)

\* The paths of the leaves a call committed from change input.
CommitPaths(log) ==
  {log[i].path : i \in {j \in 1..Len(log) : log[j].ev = "commit" /\ log[j].from = "set"}}

\* Which objects a reference to a tree refers to: "cur" are the objects that
\* state.data and state.metadata refer to, "old" are objects they referred to
\* before a reset allocated new ones.
Current == [data |-> "cur", metadata |-> "cur"]
Retired == [data |-> "old", metadata |-> "old"]
NoTrees == [data |-> "none", metadata |-> "none"]

\* exposed: the objects api.data and api.metadata referred to when the call
\* was made; target: the objects the call wrote into.
Call0(op, input, m, ret) ==
  [op |-> op, input |-> input, err |-> m.err, ret |-> ret, log |-> m.log, undone |-> {},
   shared |-> {}, inputAfter |-> m.input, exposed |-> state.api.refs, target |-> NoTrees,
   given |-> input]

Api == [ref |-> "api"]

\* api.change as create defines it.
ManagerChange == [fn |-> "change"]

\* state and api once both refer to the trees data and metadata:
\* `data: state.data, metadata: state.metadata` in create,
\* `api.data = state.data = initial.data` (and metadata) in reset.
Exposing(data, metadata) ==
  [data |-> data, metadata |-> metadata,
   api |-> [data |-> data, metadata |-> metadata, refs |-> Current, change |-> ManagerChange]]

\* state and api once resolve has written data and metadata into the objects
\* state.data and state.metadata refer to: api.data shows the writes when it
\* refers to the same object.
Mutated(st, data, metadata) ==
  [data |-> data, metadata |-> metadata,
   api |-> [data |-> IF st.api.refs.data = "cur" THEN data ELSE st.api.data,
            metadata |-> IF st.api.refs.metadata = "cur" THEN metadata ELSE st.api.metadata,
            refs |-> st.api.refs, change |-> st.api.change]]

Init ==
  /\ cfg \in Configs
  /\ nodeEnv \in NodeEnvs(cfg)
  /\ envFoo = "foo"
  /\ created = FALSE
  /\ state = Exposing(Undefined, Undefined)
  /\ last = Call0("none", Undefined, World(envFoo), Undefined)
  /\ hist = [data |-> Undefined, metadata |-> Undefined, env |-> envFoo, set |-> {},
             origin |-> Undefined]

\* const initial = initialize(fields), unless validateSpec threw
CreateInitial ==
  IF isDevelopment(nodeEnv) /\ validateSpec(FieldsOf(cfg)).kind # "none"
    THEN Out(Undefined, Undefined,
             [World(envFoo) EXCEPT !.err = validateSpec(FieldsOf(cfg))])
    ELSE initialize(FieldsOf(cfg), World(envFoo))

\* Mutant: reset assigns the new trees to state only, not to api.
InitializedDetached(op, initial) ==
  IF Failed(initial.m)
    THEN /\ last' = Call0(op, Undefined, initial.m, Undefined)
         /\ UNCHANGED <<created, state, hist>>
    ELSE /\ created' = TRUE
         /\ state' = IF op = "reset"
                       THEN [data |-> initial.data, metadata |-> initial.metadata,
                             api |-> [state.api EXCEPT !.refs = Retired]]
                       ELSE Exposing(initial.data, initial.metadata)
         /\ last' = [Call0(op, Undefined, initial.m, Api)
                      EXCEPT !.undone = hist.set,
                             !.exposed = IF op = "reset" THEN Retired ELSE NoTrees]
         /\ hist' = [data |-> initial.data, metadata |-> initial.metadata,
                     env |-> envFoo, set |-> {},
                     origin |-> IF op = "create"
                                  THEN [data |-> initial.data, metadata |-> initial.metadata,
                                        env |-> envFoo]
                                  ELSE hist.origin]

\* Mutant: reset writes the initial values into the trees it has, no new objects.
InitializedInPlace(op, initial) ==
  IF Failed(initial.m)
    THEN /\ last' = Call0(op, Undefined, initial.m, Undefined)
         /\ UNCHANGED <<created, state, hist>>
    ELSE /\ created' = TRUE
         /\ state' = [Exposing(initial.data, initial.metadata)
                       EXCEPT !.api.change = state.api.change]
         /\ last' = [Call0(op, Undefined, initial.m, Api) EXCEPT !.undone = hist.set]
         /\ hist' = [data |-> initial.data, metadata |-> initial.metadata,
                     env |-> envFoo, set |-> {},
                     origin |-> IF op = "create"
                                  THEN [data |-> initial.data, metadata |-> initial.metadata,
                                        env |-> envFoo]
                                  ELSE hist.origin]

\* create's and reset's assignments once initialize(fields) has returned initial:
\* the trees are new objects, and what state and api referred to is retired.
Initialized(op, initial) ==
  IF Failed(initial.m)
    THEN /\ last' = Call0(op, Undefined, initial.m, Undefined)
         /\ UNCHANGED <<created, state, hist>>
    ELSE /\ created' = TRUE
         /\ state' = [Exposing(initial.data, initial.metadata)
                       EXCEPT !.api.change = state.api.change]
         /\ last' = [Call0(op, Undefined, initial.m, Api)
                      EXCEPT !.undone = hist.set,
                             !.exposed = IF op = "reset" THEN Retired ELSE NoTrees]
         /\ hist' = [data |-> initial.data, metadata |-> initial.metadata,
                     env |-> envFoo, set |-> {},
                     origin |-> IF op = "create"
                                  THEN [data |-> initial.data, metadata |-> initial.metadata,
                                        env |-> envFoo]
                                  ELSE hist.origin]

\* create({ fields, ...options })
Create ==
  /\ ~created
  /\ Initialized("create", CreateInitial)
  /\ UNCHANGED <<cfg, nodeEnv, envFoo>>

\* Mutant: a change that throws restores the trees it started from.
ChangedRollingBack(input, r) ==
  /\ state' = IF Failed(r.m) THEN state ELSE Mutated(state, r.data, r.metadata)
  /\ last' = [Call0("change", input, r.m, IF Failed(r.m) THEN Undefined ELSE Api)
               EXCEPT !.target = Current]
  /\ hist' = [hist EXCEPT !.set = @ \cup CommitPaths(r.m.log)]

\* The Manager's state once resolve has returned r.
Changed(input, r) ==
  /\ state' = Mutated(state, r.data, r.metadata)
  /\ last' = [Call0("change", input, r.m, IF Failed(r.m) THEN Undefined ELSE Api)
               EXCEPT !.target = Current]
  /\ hist' = [hist EXCEPT !.set = @ \cup CommitPaths(r.m.log)]

\* api.change(input)
Change(input) ==
  /\ created
  /\ state.api.change = ManagerChange
  /\ Changed(input, resolve(OptionsOf(cfg), "set", FieldsOf(cfg), input,
                            state.data, state.metadata, <<>>,
                            [World(envFoo) EXCEPT !.input = input]))
  /\ UNCHANGED <<cfg, nodeEnv, envFoo, created>>

\* Mutant: reset replaces the data and keeps the metadata.
ResetKeepingMetadata ==
  /\ created
  /\ Initialized("reset",
                 [initialize(FieldsOf(cfg), World(envFoo)) EXCEPT !.metadata = state.metadata])
  /\ UNCHANGED <<cfg, nodeEnv, envFoo>>

\* Mutant: reset restores the trees that create computed.
ResetRestoringCreated ==
  /\ created
  /\ Initialized("reset", Out(hist.origin.data, hist.origin.metadata, World(envFoo)))
  /\ UNCHANGED <<cfg, nodeEnv, envFoo>>

\* api.reset()
Reset ==
  /\ created
  /\ Initialized("reset", initialize(FieldsOf(cfg), World(envFoo)))
  /\ UNCHANGED <<cfg, nodeEnv, envFoo>>

\* A value that is an object (array, plain object, function): assigning it
\* stores a reference to it, not a copy.
IsReference(v) ==
  \/ IsMap(v) \/ isPlainObject(v) \/ IsFunction(v) \/ "arr" \in DOMAIN v
  \/ "type" \in DOMAIN v

\* The paths of metadataToData's result at which `copy[name] = info.initial`
\* stored a reference to an object that the metadata tree holds; namespaces
\* get a new object (`metadataToData(info.fields, {})`).
RECURSIVE SharedInitials(_, _)
SharedInitials(metadataTree, prefix) ==
  IF ~IsMap(metadataTree) THEN {}
  ELSE UNION {
         LET info == metadataTree.map[name]
         IN IF Has(info, "fields") THEN SharedInitials(info.fields, Append(prefix, name))
            ELSE IF Has(info, "initial") /\ IsReference(info.initial)
              THEN {Append(prefix, name)}
            ELSE {} : name \in OwnKeys(metadataTree)}

\* api.original()
Original ==
  /\ created
  /\ last' = [Call0("original", Undefined, World(envFoo),
                    metadataToData(state.metadata, EmptyMap))
               EXCEPT !.shared = SharedInitials(state.metadata, <<>>)]
  /\ UNCHANGED <<cfg, nodeEnv, envFoo, created, state, hist>>

\* The process environment changes between two calls (process.env.foo = v).
SetEnv ==
  /\ ReadsEnv(cfg)
  /\ \E v \in EnvValues \ {envFoo} : envFoo' = v
  /\ UNCHANGED <<cfg, nodeEnv, created, state, last, hist>>

ChangeAny == \E input \in InputsOf(cfg) : Change(input)

\* The ports getPort({ port: getPort.makeRange(4000, 6000) }) may return.
RandomPorts == {Num(4000), Num(5999)}

\* const forcedServerSettings = { port: randomPort, playground: false, startMessage() {} }
forcedServerSettings(randomPort) ==
  O3("port", randomPort, "playground", Bool(FALSE), "startMessage", FnSilent)

\* { ...a, ...b }: the own properties of a (none for null, undefined, a
\* boolean or a number), overwritten and followed by those of b.
Spread(a, b) ==
  LET own == IF isPlainObject(a) THEN a.obj ELSE <<>>
      Over(e) == <<e[1], IF e[1] \in Keys(b) THEN Get(b, e[1]) ELSE e[2]>>
      New(e) == e[1] \notin {own[i][1] : i \in 1..Len(own)}
  IN Obj([i \in 1..Len(own) |-> Over(own[i])] \o SelectSeq(b.obj, New))

\* o[k] = v for an own key k of o
SetKey(o, k, v) ==
  Obj([i \in 1..Len(o.obj) |-> IF o.obj[i][1] = k THEN <<k, v>> ELSE o.obj[i]])

\* Mutant: the forced settings are spread first, the caller's over them.
ForcedUnderCaller(newSettings, forced) ==
  IF Get(newSettings, "server") # Undefined
    THEN SetKey(newSettings, "server", Spread(forced, Get(newSettings, "server")))
    ELSE newSettings

\* newSettings as the replacement of settings.change hands it to
\* originalSettingsChange.
Forced(newSettings, forced) ==
  IF Get(newSettings, "server") # Undefined
    THEN SetKey(newSettings, "server", Spread(Get(newSettings, "server"), forced))
    ELSE newSettings

\* The state once originalSettingsChange(input) has returned r, for a call
\* that was given `given`; `change` is what settings.change is afterwards.
SettingsChanged(op, given, input, r, change) ==
  /\ state' = [Mutated(state, r.data, r.metadata) EXCEPT !.api.change = change]
  /\ last' = [Call0(op, input, r.m, Undefined) EXCEPT !.target = Current, !.given = given]
  /\ hist' = [hist EXCEPT !.set = @ \cup CommitPaths(r.m.log)]

OriginalSettingsChange(input) ==
  resolve(OptionsOf(cfg), "set", FieldsOf(cfg), input, state.data, state.metadata, <<>>,
          [World(envFoo) EXCEPT !.input = input])

\* createTestContext: the forced settings are applied, then settings.change is
\* replaced (not when the change threw).
CreateTestContext ==
  /\ created
  /\ cfg = "server"
  /\ state.api.change = ManagerChange
  /\ \E randomPort \in RandomPorts :
       LET forced == forcedServerSettings(randomPort)
           input == O1("server", forced)
           r == OriginalSettingsChange(input)
       IN SettingsChanged("createTestContext", input, input, r,
                          IF Failed(r.m) THEN state.api.change
                          ELSE [fn |-> "forcing", forced |-> forced])
  /\ UNCHANGED <<cfg, nodeEnv, envFoo, created>>

\* settings.change(newSettings) once createTestContext has replaced it
ForcingChange(newSettings) ==
  /\ created
  /\ state.api.change # ManagerChange
  /\ LET input == Forced(newSettings, state.api.change.forced)
     IN SettingsChanged("settings.change", newSettings, input,
                        OriginalSettingsChange(input), state.api.change)
  /\ UNCHANGED <<cfg, nodeEnv, envFoo, created>>

ForcingChangeAny == \E newSettings \in InputsOf(cfg) : ForcingChange(newSettings)

Next ==
  Create \/ ChangeAny \/ Reset \/ Original \/ SetEnv \/ CreateTestContext \/ ForcingChangeAny

Spec == Init /\ [][Next]_vars

-----------------------------------------------------------------------------
(* Reading the trees *)

IsRecordNode(node) == Has(node, "type") /\ node.type = "record"

\* The leaf metadata nodes of a metadata tree (those initMetadataField made),
\* each with its path (through namespaces and through the current entries of
\* records).  A node that Lo.mapValues made from a namespace initializer's
\* result and that no leaf replaced has no type and is not a leaf.
RECURSIVE MetaLeaves(_, _)
MetaLeaves(tree, prefix) ==
  IF ~IsMap(tree) THEN {}
  ELSE UNION {
         LET node == tree.map[name]
             path == Append(prefix, name)
         IN IF Has(node, "fields") THEN MetaLeaves(node.fields, path)
            ELSE IF IsRecordNode(node)
              THEN UNION {MetaLeaves(node.value.map[k], Append(path, k)) :
                            k \in OwnKeys(node.value)}
            ELSE IF Has(node, "type") /\ node.type = "leaf"
              THEN {[path |-> path, node |-> node]}
            ELSE {} : name \in OwnKeys(tree)}

Leaves(tree) == MetaLeaves(tree, <<>>)
LeafAt(tree, path) == {l.node : l \in {x \in Leaves(tree) : x.path = path}}

Missing == [missing |-> TRUE]

\* The value a data tree holds at a path.
RECURSIVE DataAt(_, _)
DataAt(d, path) ==
  IF path = <<>> THEN d
  ELSE IF IsMap(d) /\ Head(path) \in OwnKeys(d) THEN DataAt(d.map[Head(path)], Tail(path))
  ELSE Missing

IsPrefix(q, path) == Len(q) <= Len(path) /\ SubSeq(path, 1, Len(q)) = q

\* The paths at which an input holds something that is not a plain object.
RECURSIVE InputPaths(_, _)
InputPaths(input, prefix) ==
  IF ~isPlainObject(input) THEN {prefix}
  ELSE UNION {InputPaths(input.obj[i][2], Append(prefix, input.obj[i][1])) :
                i \in 1..Len(input.obj)}

\* The input names the leaf at path (or a namespace above it, by a shorthand value).
Names(input, path) == \E q \in InputPaths(input, <<>>) : IsPrefix(q, path)

Events(ev) == {i \in 1..Len(last.log) : last.log[i].ev = ev}

-----------------------------------------------------------------------------
(* C1..C10 *)

\* C1: a leaf's metadata `from` is 'initial' exactly when no change has
\* committed that leaf since the latest create or reset; across a change a
\* leaf that is 'set' stays 'set'.
C1_FromIsSetIffCommitted ==
  /\ [](created =>
          \A l \in Leaves(state.metadata) :
            (l.node.from = "initial") <=> (l.path \notin hist.set))
  /\ [][last'.op = "change" =>
          \A l \in Leaves(state.metadata) :
            l.node.from = "set" =>
              \A n \in LeafAt(state'.metadata, l.path) : n.from = "set"]_vars

C1_Witness ==
  /\ created /\ last.op = "change" /\ last.err.kind = "none"
  /\ \E l \in Leaves(state.metadata) :
       l.node.from = "set" /\ l.path \in hist.set /\ l.path \notin CommitPaths(last.log)
  /\ \E l \in Leaves(state.metadata) : l.node.from = "initial"

\* C2: no change alters a leaf's metadata `initial`: it stays what it was
\* after the latest create or reset (for the leaf of a record entry added
\* since, what it was when the entry was added).
C2_ChangeKeepsInitial ==
  /\ [](created =>
          \A l \in Leaves(hist.metadata) :
            /\ LeafAt(state.metadata, l.path) # {}
            /\ \A n \in LeafAt(state.metadata, l.path) : n.initial = l.node.initial)
  /\ [][last'.op = "change" =>
          \A l \in Leaves(state.metadata) :
            /\ LeafAt(state'.metadata, l.path) # {}
            /\ \A n \in LeafAt(state'.metadata, l.path) : n.initial = l.node.initial]_vars

C2_Witness ==
  /\ created /\ last.op = "change" /\ last.err.kind = "none"
  /\ \E l \in Leaves(state.metadata) :
       /\ l.path \in CommitPaths(last.log)
       /\ l.node.value # l.node.initial
       /\ Len(l.path) = 3
  /\ \E l \in Leaves(hist.metadata) :
       \E n \in LeafAt(state.metadata, l.path) : n.value # l.node.value

\* C3: original() returns a tree equal to the data tree the Manager held
\* right after the latest create or reset.
C3_OriginalIsInitialData ==
  (created /\ last.op = "original") => last.ret = hist.data

\* C4: a change leaves the data value and the metadata of every leaf its
\* input does not name as they were.
C4_UnnamedFieldsUntouched ==
  [][last'.op = "change" =>
       \A l \in Leaves(state.metadata) :
         ~Names(last'.input, l.path) =>
           /\ LeafAt(state'.metadata, l.path) = {l.node}
           /\ DataAt(state'.data, l.path) = DataAt(state.data, l.path)]_vars

C4_Witness ==
  /\ created /\ last.op = "change" /\ last.err.kind = "none"
  /\ last.input = O1("a", O1("c", O1("p", Str("bar"))))
  /\ DataAt(state.data, <<"a", "c", "p">>) = Str("bar")
  /\ DataAt(state.data, <<"a", "c", "q">>) = Str("foo")
  /\ DataAt(state.data, <<"a", "x">>) = Str("bar")
  /\ DataAt(state.data, <<"a", "y">>) = Str("bar")
  /\ \E n \in LeafAt(state.metadata, <<"a", "y">>) : n.from = "initial"
  /\ \E n \in LeafAt(state.metadata, <<"a", "x">>) : n.from = "set"

\* The paths at which an input has a key for which the spec has no specifier.
RECURSIVE UnknownKeys(_, _, _)
UnknownKeys(fields, input, prefix) ==
  IF ~isPlainObject(input) THEN {}
  ELSE UNION {
         LET k == input.obj[i][1]
             v == input.obj[i][2]
             specifier == Get(fields, k)
         IN IF k \notin Keys(fields) THEN {Append(prefix, k)}
            ELSE IF Has(specifier, "fields")
              THEN UnknownKeys(specifier.fields, v, Append(prefix, k))
            ELSE IF Has(specifier, "entryFields") /\ isPlainObject(v)
              THEN UNION {UnknownKeys(specifier.entryFields, v.obj[j][2],
                                      Append(Append(prefix, k), v.obj[j][1])) :
                            j \in 1..Len(v.obj)}
            ELSE {} : i \in 1..Len(input.obj)}

\* C5: a change whose input has a key without a specifier throws the
\* unknown-setting error and the key is not added to data.
C5_UnknownSettingRejected ==
  (created /\ last.op = "change"
     /\ UnknownKeys(FieldsOf(cfg), last.input, <<>>) # {}) =>
    /\ last.err.kind = "UnknownSetting"
    /\ \A u \in UnknownKeys(FieldsOf(cfg), last.input, <<>>) :
         DataAt(state.data, u) = Missing

\* The leaf specifiers of a spec, each with the name of its field.
RECURSIVE LeafSpecs(_)
LeafSpecs(fields) ==
  UNION {LET specifier == fields.obj[i][2]
         IN IF Has(specifier, "fields") THEN LeafSpecs(specifier.fields)
            ELSE IF Has(specifier, "entryFields") THEN LeafSpecs(specifier.entryFields)
            ELSE {[name |-> fields.obj[i][1], specifier |-> specifier]} :
           i \in 1..Len(fields.obj)}

\* The leaf called name declares every hook of hooks.
Declares(name, hooks) ==
  \E ls \in LeafSpecs(FieldsOf(cfg)) :
    ls.name = name /\ \A h \in hooks : Has(ls.specifier, h)

\* The ev events that precede event i in the resolution of the same leaf: a
\* leaf's resolution ends with its commit.
Before(i, ev) ==
  {j \in Events(ev) :
     /\ j < i
     /\ last.log[j].name = last.log[i].name
     /\ \A k \in (j + 1)..(i - 1) : last.log[k].ev # "commit"}

\* What a fixup event leaves as the resolved value.
FixedValue(e) == IF Truthy(e.out) THEN Get(e.out, "value") ELSE e.arg

\* The commit that ends the leaf resolution event i belongs to, if any.
CommitAfter(i) ==
  {k \in Events("commit") :
     /\ k > i
     /\ last.log[k].path[Len(last.log[k].path)] = last.log[i].name
     /\ \A j \in (i + 1)..(k - 1) : last.log[j].ev # "commit"}

\* C6: in a change, the validator of a leaf that also has a fixup runs after
\* the fixup and on the value the fixup left (its correction, or the input
\* when it returned null); an input the validator rejects but whose correction
\* it accepts is committed.
C6_FixupBeforeValidate ==
  (created /\ last.op = "change") =>
    /\ \A v \in Events("validate") :
         Declares(last.log[v].name, {"fixup", "validate"}) =>
           /\ Before(v, "fixup") # {}
           /\ \A f \in Before(v, "fixup") : last.log[v].arg = FixedValue(last.log[f])
    /\ \A f \in Events("fixup") : Before(f, "validate") = {}
    /\ \A f \in Events("fixup") :
         \A ls \in LeafSpecs(FieldsOf(cfg)) :
           (/\ ls.name = last.log[f].name
            /\ Has(ls.specifier, "validate")
            /\ Truthy(last.log[f].out)
            /\ Truthy(Call(ls.specifier.validate, last.log[f].arg, envFoo).val)
            /\ ~Truthy(Call(ls.specifier.validate, FixedValue(last.log[f]), envFoo).val)
            /\ last.err.kind \notin {"TypeMapperError", "OnFixupError"})
           => /\ CommitAfter(f) # {}
              /\ last.err.name # ls.name

C6_Witness ==
  /\ created /\ last.op = "change" /\ last.err.kind = "none"
  /\ last.input = O1("path", Str("foo"))
  /\ \E f \in Events("fixup"), v \in Events("validate") :
       /\ f < v
       /\ last.log[f].arg = Str("foo")
       /\ last.log[v].arg = Str("/foo")
  /\ DataAt(state.data, <<"path">>) = Str("file:/foo")
  /\ \E n \in LeafAt(state.metadata, <<"path">>) : n.from = "set"

\* C7: in a change, the type mapper of a leaf runs after the leaf's fixup and
\* validator have returned without error, on the very value the validator was
\* given, and what is committed to data and metadata.value is its result.
C7_MapTypeLast ==
  (created /\ last.op = "change") =>
    /\ \A i \in Events("mapType") :
         LET e == last.log[i]
         IN /\ Declares(e.name, {"mapType", "fixup"}) => Before(i, "fixup") # {}
            /\ Declares(e.name, {"mapType", "validate"}) => Before(i, "validate") # {}
            /\ \A f \in Before(i, "fixup") : e.arg = FixedValue(last.log[f])
            /\ \A v \in Before(i, "validate") :
                 ~Truthy(last.log[v].out) /\ last.log[v].arg = e.arg
            /\ Before(i, "mapType") = {}
            /\ \A j \in (i + 1)..Len(last.log) :
                 (last.log[j].ev \in {"fixup", "validate"} /\ last.log[j].name = e.name)
                   => \E k \in (i + 1)..(j - 1) : last.log[k].ev = "commit"
            /\ ~IsUndefined(e.out) =>
                 /\ i < Len(last.log)
                 /\ last.log[i + 1].ev = "commit"
                 /\ last.log[i + 1].value = e.out
                 /\ DataAt(state.data, last.log[i + 1].path) = e.out
                 /\ LeafAt(state.metadata, last.log[i + 1].path) # {}
                 /\ \A n \in LeafAt(state.metadata, last.log[i + 1].path) : n.value = e.out
    /\ last.err.kind \in {"FixupError", "OnFixupError", "ValidationFailed",
                          "ValidationRuntimeError"} =>
         \A i \in Events("mapType") : CommitAfter(i) # {}

C7_Witness ==
  /\ created /\ last.op = "change" /\ last.err.kind = "none"
  /\ last.input = O1("path", Str("/bar"))
  /\ \E v \in Events("validate"), i \in Events("mapType") :
       /\ v < i
       /\ last.log[v].arg = Str("/bar")
       /\ last.log[i].arg = Str("/bar")
       /\ last.log[i].out = Str("file:/bar")
  /\ DataAt(state.data, <<"path">>) = Str("file:/bar")
  /\ \E n \in LeafAt(state.metadata, <<"path">>) : n.value = Str("file:/bar")

\* The keys of an input at which a namespace with a shorthand is given a
\* non-object that its shorthand expands.
Shorthands(fields, input) ==
  {i \in 1..Len(input.obj) :
     LET k == input.obj[i][1]
     IN /\ k \in Keys(fields)
        /\ Has(Get(fields, k), "fields")
        /\ Has(Get(fields, k), "shorthand")
        /\ ~isPlainObject(input.obj[i][2])
        /\ Call(Get(fields, k).shorthand, input.obj[i][2], envFoo).ok}

\* The input with shorthand(v) written out in place of each such v.
Longhand(fields, input) ==
  Obj([i \in 1..Len(input.obj) |->
         IF i \in Shorthands(fields, input)
           THEN <<input.obj[i][1],
                  Call(Get(fields, input.obj[i][1]).shorthand, input.obj[i][2], envFoo).val>>
           ELSE input.obj[i]])

\* C8: from the same state, a change that gives a namespace with a shorthand
\* a non-object v yields the data (and metadata) that the change with the
\* object shorthand(v) yields; a plain object given to such a namespace is
\* resolved without a call of the shorthand.
C8_ShorthandIsLonghand ==
  /\ [](created /\ last.op = "change" =>
          \A e \in Events("shorthand") :
            ~isPlainObject(last.log[e].arg) /\ ~isPlainObject(Get(last.input, last.log[e].name)))
  /\ [][(last'.op = "change" /\ Shorthands(FieldsOf(cfg), last'.input) # {}) =>
          LET r == resolve(OptionsOf(cfg), "set", FieldsOf(cfg),
                           Longhand(FieldsOf(cfg), last'.input),
                           state.data, state.metadata, <<>>, World(envFoo))
          IN /\ state'.data = r.data
             /\ state'.metadata = r.metadata
             /\ last'.err = r.m.err]_vars

C8_Witness ==
  /\ created /\ last.op = "change" /\ last.err.kind = "none"
  /\ last.input = O1("s", Str("foo"))
  /\ \E e \in Events("shorthand") :
       last.log[e].arg = Str("foo") /\ last.log[e].out = O1("to", Str("foo"))
  /\ DataAt(state.data, <<"s", "to">>) = Str("/foo")
  /\ DataAt(state.data, <<"s", "o">>) = Str("foo")

InitialNow(env) ==
  {[path |-> <<ls.name>>,
    value |-> IF Has(ls.specifier, "mapType")
                THEN Call(ls.specifier.mapType,
                          Call(ls.specifier.initial, Undefined, env).val, env).val
                ELSE Call(ls.specifier.initial, Undefined, env).val] :
     ls \in {x \in LeafSpecs(FieldsOf(cfg)) :
               /\ x.name \in Keys(FieldsOf(cfg))
               /\ Get(FieldsOf(cfg), x.name) = x.specifier
               /\ Has(x.specifier, "initial")}}

RECURSIVE PlainLeaves(_, _)
PlainLeaves(fields, prefix) ==
  UNION {LET specifier == fields.obj[i][2]
             path == Append(prefix, fields.obj[i][1])
         IN IF Has(specifier, "fields") THEN PlainLeaves(specifier.fields, path)
            ELSE IF Has(specifier, "entryFields") THEN {}
            ELSE {[path |-> path, name |-> fields.obj[i][1], specifier |-> specifier]} :
           i \in 1..Len(fields.obj)}

\* The names under which a trace event concerns a leaf.
EventName(e) == IF "info" \in DOMAIN e THEN e.info.name ELSE e.name

\* What a leaf's initializer, then its type mapper, return.
InitialValue(specifier, env) ==
  IF Has(specifier, "mapType")
    THEN Call(specifier.mapType, Call(specifier.initial, Undefined, env).val, env).val
    ELSE Call(specifier.initial, Undefined, env).val

\* C11: create and reset call neither the fixup nor the validator of a plain
\* leaf and deliver no fixup notification for it; the leaf holds what its
\* initializer returned, type-mapped, whatever fixup or validate would say.
C11_InitialSkipsFixupAndValidate ==
  (created /\ last.op \in {"create", "reset"} /\ last.err.kind = "none") =>
    \A l \in PlainLeaves(FieldsOf(cfg), <<>>) :
      /\ \A i \in 1..Len(last.log) :
           last.log[i].ev \in {"fixup", "validate", "warn", "onFixup"}
             => EventName(last.log[i]) # l.name
      /\ Has(l.specifier, "initial") =>
           /\ DataAt(state.data, l.path) = InitialValue(l.specifier, hist.env)
           /\ \A n \in LeafAt(state.metadata, l.path) :
                n.value = InitialValue(l.specifier, hist.env)

C11_Witness ==
  /\ created /\ last.op = "create" /\ last.err.kind = "none"
  /\ cfg = "fix"
  /\ Truthy(Call(FnLeadingSlash, Str("foo"), envFoo).val)
  /\ Truthy(Call(FnValidPath, Str("foo"), envFoo).val)
  /\ \E i \in 1..Len(last.log) :
       /\ last.log[i].ev = "initial" /\ last.log[i].name = "u"
       /\ last.log[i].out = Str("foo")
  /\ DataAt(state.data, <<"u">>) = Str("foo")
  /\ \E n \in LeafAt(state.metadata, <<"u">>) : n.value = Str("foo") /\ n.from = "initial"

\* The notification events that directly follow event i of the trace.
NotifiedAfter(i) ==
  {j \in (i + 1)..Len(last.log) :
     \A k \in (i + 1)..j : last.log[k].ev \in {"warn", "onFixup"}}

\* The event by which a notification reaches its handler: the call of the
\* custom handler when create was given one, the default warning otherwise.
Delivery == IF Has(OptionsOf(cfg), "onFixup") THEN "onFixup" ELSE "warn"

\* What the resolution of a leaf commits for the value its fixup left.
Mapped(name, value) ==
  LET ls == CHOOSE x \in LeafSpecs(FieldsOf(cfg)) : x.name = name
  IN IF Has(ls.specifier, "mapType")
       THEN Call(ls.specifier.mapType, value, envFoo).val
       ELSE value

\* C12: when a fixup returns a correction during change, exactly one
\* notification is delivered for the leaf, with the leaf's name, the input
\* value as before, the corrected value as after and the fixup's messages; and
\* the value committed is the corrected one.
C12_CorrectionNotifiedOnce ==
  (created /\ last.op = "change") =>
    \A f \in Events("fixup") :
      Truthy(last.log[f].out) =>
        /\ Cardinality({j \in NotifiedAfter(f) : last.log[j].ev = Delivery}) = 1
        /\ \A j \in NotifiedAfter(f) :
             last.log[j].info = FixupInfo(last.log[f].name, last.log[f].arg,
                                          Get(last.log[f].out, "value"),
                                          Get(last.log[f].out, "messages"))
        /\ \A k \in CommitAfter(f) :
             /\ last.log[k].value = Mapped(last.log[f].name, Get(last.log[f].out, "value"))
             /\ DataAt(state.data, last.log[k].path) = last.log[k].value
        /\ last.err.kind = "none" => CommitAfter(f) # {}

C12_Witness ==
  /\ created /\ last.op = "change" /\ last.err.kind = "none"
  /\ cfg = "fix"
  /\ last.input = O1("v", Str("foo"))
  /\ Len(last.log) = 3
  /\ last.log[1].ev = "fixup"
  /\ last.log[2] = [ev |-> "warn",
                    info |-> [name |-> "v", before |-> Str("foo"), after |-> Str("/foo"),
                              messages |-> Arr(<<"must have leading slash">>)]]
  /\ last.log[3].ev = "commit"
  /\ DataAt(state.data, <<"v">>) = Str("/foo")

\* C13: when create was given an onFixup handler, every correction a fixup
\* returns in any call (change, and the resolution of record seeds in create
\* and reset) is handed to that handler, and the default warning appears only
\* when the handler calls the default one.
C13_CustomHandlerReceivesEveryFixup ==
  (created /\ Has(OptionsOf(cfg), "onFixup")) =>
    \A f \in Events("fixup") :
      Truthy(last.log[f].out) =>
        /\ Cardinality({j \in NotifiedAfter(f) : last.log[j].ev = "onFixup"}) = 1
        /\ \A j \in NotifiedAfter(f) :
             last.log[j].ev = "warn" => OptionsOf(cfg).onFixup = FnCallOriginal

\* C14: when a fixup returns null during change, no notification follows
\* (neither the custom nor the default handler runs) and the validator, the
\* type mapper and the commit get the input value as it was given.
C14_NullFixupIsSilent ==
  (created /\ last.op = "change") =>
    \A f \in Events("fixup") :
      last.log[f].out = Null =>
        /\ NotifiedAfter(f) = {}
        /\ \A v \in Events("validate") :
             f \in Before(v, "fixup") => last.log[v].arg = last.log[f].arg
        /\ \A i \in Events("mapType") :
             f \in Before(i, "fixup") => last.log[i].arg = last.log[f].arg
        /\ \A k \in CommitAfter(f) :
             /\ last.log[k].value = Mapped(last.log[f].name, last.log[f].arg)
             /\ DataAt(state.data, last.log[k].path) = last.log[k].value
        /\ last.err.kind = "none" => CommitAfter(f) # {}

C14_Witness ==
  /\ created /\ last.op = "change" /\ last.err.kind = "none"
  /\ cfg = "fixCall"
  /\ last.input = O1("u", Str("/bar"))
  /\ Len(last.log) = 3
  /\ last.log[1] = [ev |-> "fixup", name |-> "u", arg |-> Str("/bar"), out |-> Null]
  /\ last.log[2].ev = "validate" /\ last.log[2].arg = Str("/bar")
  /\ last.log[3].ev = "commit" /\ last.log[3].value = Str("/bar")
  /\ DataAt(state.data, <<"u">>) = Str("/bar")

\* C15: when the validator returns a violation, change throws the
\* validation-failed error, which names the setting and lists every message
\* of the violation, in order, each on a line of its own after a bullet; when
\* it returns undefined or null, change does not fail validation.
C15_ViolationListsMessages ==
  (created /\ last.op = "change") =>
    \A v \in Events("validate") :
      LET e == last.log[v]
          messages == Get(e.out, "messages").arr
      IN /\ Truthy(e.out) =>
              /\ v = Len(last.log)
              /\ last.err.kind = "ValidationFailed"
              /\ last.err.name = e.name
              /\ last.err.text[2] = e.name
              /\ last.err.text[4] = Inspect(e.arg)
              /\ Len(last.err.text) = 4 + 2 * Len(messages)
              /\ \A i \in 1..Len(messages) :
                   /\ last.err.text[4 + 2 * i] = messages[i]
                   /\ last.err.text[3 + 2 * i] = IF i = 1 THEN ":\n\n- " ELSE "\n- "
         /\ e.out \in {Undefined, Null} =>
              ~(last.err.kind = "ValidationFailed" /\ v = Len(last.log))

C15_Witness ==
  /\ created /\ last.op = "change"
  /\ cfg = "leaf"
  /\ last.input = O1("path", Str("bad"))
  /\ last.err.kind = "ValidationFailed" /\ last.err.name = "path"
  /\ last.err.text = <<"Your setting \"", "path", "\" failed validation with value ",
                       "'/bad'", ":\n\n- ", "Too long", "\n- ", "Too simple">>

\* A change in which a validator returned null and nothing was thrown.
C15_NullWitness ==
  /\ created /\ last.op = "change" /\ last.err.kind = "none"
  /\ \E v \in Events("validate") : last.log[v].out = Null

\* C16: after a change that threw, every leaf the call committed before the
\* error holds the committed value in data and metadata, with from = 'set'.
C16_NoRollback ==
  (created /\ last.op = "change" /\ last.err.kind # "none") =>
    \A k \in Events("commit") :
      /\ DataAt(state.data, last.log[k].path) = last.log[k].value
      /\ LeafAt(state.metadata, last.log[k].path) # {}
      /\ \A n \in LeafAt(state.metadata, last.log[k].path) :
           n.value = last.log[k].value /\ n.from = "set"

C16_Witness ==
  /\ created /\ last.op = "change"
  /\ cfg = "rec"
  /\ last.input = O1("r", O2("k1", O1("g", Str("foo")), "k2", O1("z", Str("foo"))))
  /\ last.err = Err("UnknownSetting", "z")
  /\ \E k \in Events("commit") : last.log[k].path = <<"r", "k1", "g">>
  /\ DataAt(state.data, <<"r", "k1", "g">>) = Str("foo")
  /\ \E n \in LeafAt(state.metadata, <<"r", "k1", "g">>) :
       n.from = "set" /\ n.initial = Str("bar")

\* The [key, value] pairs of an input whose value is not a plain object,
\* depth first, in the insertion order of the keys.
RECURSIVE FlattenFrom(_, _)
FlattenFrom(entries, i) ==
  IF i > Len(entries) THEN <<>>
  ELSE (IF isPlainObject(entries[i][2])
          THEN FlattenFrom(entries[i][2].obj, 1)
          ELSE <<entries[i]>>) \o FlattenFrom(entries, i + 1)

\* The leaf named kv[1] has a fixup that corrects the value kv[2].
IsCorrected(kv) ==
  \E ls \in LeafSpecs(FieldsOf(cfg)) :
    /\ ls.name = kv[1]
    /\ Has(ls.specifier, "fixup")
    /\ Call(ls.specifier.fixup, kv[2], envFoo).ok
    /\ Truthy(Call(ls.specifier.fixup, kv[2], envFoo).val)

\* The corrections a change with this input gives rise to, in visiting order.
ExpectedFixups(input) ==
  SelectSeq(FlattenFrom(Longhand(FieldsOf(cfg), input).obj, 1), IsCorrected)

IsDelivery(e) == e.ev = Delivery

\* The [name, before] pairs of the notifications of the last call, in the
\* order they were delivered.
DeliveredFixups ==
  LET d == SelectSeq(last.log, IsDelivery)
  IN [i \in 1..Len(d) |-> <<d[i].info.name, d[i].info.before>>]

\* C17: within a change, the fixup notifications are delivered in the order
\* the corrected leaves are visited (depth first, in the key order of the
\* input), each directly after its fixup and before anything later is resolved.
C17_NotificationsInInputOrder ==
  (created /\ last.op = "change") =>
    /\ Len(DeliveredFixups) <= Len(ExpectedFixups(last.input))
    /\ DeliveredFixups = SubSeq(ExpectedFixups(last.input), 1, Len(DeliveredFixups))
    /\ last.err.kind = "none" => DeliveredFixups = ExpectedFixups(last.input)
    /\ \A j \in 1..Len(last.log) :
         IsDelivery(last.log[j]) =>
           \E f \in Events("fixup") :
             /\ j \in NotifiedAfter(f)
             /\ last.log[f].name = last.log[j].info.name
             /\ last.log[f].arg = last.log[j].info.before

C17_Witness ==
  /\ created /\ last.op = "change" /\ last.err.kind = "none"
  /\ cfg = "fix"
  /\ last.input = O2("v", Str("foo"), "u", Str("bar"))
  /\ Keys(FieldsOf(cfg)) = {"u", "v", "m"} /\ FieldsOf(cfg).obj[1][1] = "u"
  /\ DeliveredFixups = << <<"v", Str("foo")>>, <<"u", Str("bar")>> >>

\* Notifications of a record entry's leaf come before those of a later key.
C17_DepthFirstWitness ==
  /\ created /\ last.op = "change" /\ last.err.kind = "none"
  /\ last.input = O2("m", O1("k1", O1("f", Str("bad"))), "v", Str("foo"))
  /\ DeliveredFixups = << <<"f", Str("bad")>>, <<"v", Str("foo")>> >>

\* The paths at which an input gives a plain object to a leaf of the spec.
RECURSIVE ObjectsAtLeaves(_, _, _)
ObjectsAtLeaves(fields, input, prefix) ==
  IF ~isPlainObject(input) THEN {}
  ELSE UNION {
         LET k == input.obj[i][1]
             v == input.obj[i][2]
             specifier == Get(fields, k)
         IN IF k \notin Keys(fields) THEN {}
            ELSE IF Has(specifier, "fields")
              THEN ObjectsAtLeaves(specifier.fields, v, Append(prefix, k))
            ELSE IF Has(specifier, "entryFields")
              THEN IF isPlainObject(v)
                     THEN UNION {ObjectsAtLeaves(specifier.entryFields, v.obj[j][2],
                                                 Append(Append(prefix, k), v.obj[j][1])) :
                                   j \in 1..Len(v.obj)}
                     ELSE {}
            ELSE IF isPlainObject(v) THEN {Append(prefix, k)} ELSE {} :
           i \in 1..Len(input.obj)}

\* The top-level keys at which an input gives an array to a leaf without hooks.
ArraysAtLeaves(fields, input) ==
  {i \in 1..Len(input.obj) :
     /\ input.obj[i][1] \in Keys(fields)
     /\ DOMAIN Get(fields, input.obj[i][1]) \subseteq {"initial"}
     /\ "arr" \in DOMAIN input.obj[i][2]}

\* C18: a change that gives a plain object to a leaf throws, with the
\* not-a-namespace error when the failure is at that key, and leaves the leaf
\* as it was; an array given to a leaf is accepted and becomes the leaf's
\* value in place of the previous one.
C18_ObjectAtLeafRejected ==
  [][last'.op = "change" =>
       /\ \A u \in ObjectsAtLeaves(FieldsOf(cfg), last'.input, <<>>) :
            /\ last'.err.kind # "none"
            /\ last'.err.name = u[Len(u)] => last'.err.kind = "NotANamespace"
            /\ \A k \in 1..Len(last'.log) :
                 last'.log[k].ev = "commit" => last'.log[k].path # u
            /\ DataAt(state'.data, u) = DataAt(state.data, u)
            /\ LeafAt(state'.metadata, u) = LeafAt(state.metadata, u)
       /\ \A i \in ArraysAtLeaves(FieldsOf(cfg), last'.input) :
            LET k == last'.input.obj[i][1]
            IN /\ last'.err.name # k
               /\ last'.err.kind = "none" =>
                    /\ DataAt(state'.data, <<k>>) = last'.input.obj[i][2]
                    /\ \A n \in LeafAt(state'.metadata, <<k>>) :
                         n.value = last'.input.obj[i][2] /\ n.from = "set"]_vars

C18_Witness ==
  /\ created /\ last.op = "change"
  /\ cfg = "leaf"
  /\ last.input = O2("e", Str("bar"), "a", EmptyObj)
  /\ last.err = Err("NotANamespace", "a")
  /\ DataAt(state.data, <<"a">>) = Arr(<<"foo", "foo">>)
  /\ \A k \in Events("commit") : last.log[k].path = <<"e">>

\* An array replaces the array the leaf held.
C18_ArrayWitness ==
  /\ created /\ last.op = "change" /\ last.err.kind = "none"
  /\ cfg = "leaf"
  /\ last.input = O1("a", Arr(<<"bar">>))
  /\ DataAt(state.data, <<"a">>) = Arr(<<"bar">>)
  /\ <<"a">> \in hist.set

\* The namespaces of the spec to which an input gives a value that is not a
\* plain object, each with its path and specifier.
RECURSIVE NonObjectsAtNamespaces(_, _, _)
NonObjectsAtNamespaces(fields, input, prefix) ==
  IF ~isPlainObject(input) THEN {}
  ELSE UNION {
         LET k == input.obj[i][1]
             v == input.obj[i][2]
             specifier == Get(fields, k)
         IN IF k \notin Keys(fields) \/ ~Has(specifier, "fields") THEN {}
            ELSE IF isPlainObject(v)
              THEN NonObjectsAtNamespaces(specifier.fields, v, Append(prefix, k))
            ELSE {[path |-> Append(prefix, k), name |-> k, specifier |-> specifier,
                   value |-> v]} :
           i \in 1..Len(input.obj)}

\* The leaves of a metadata tree below a path.
LeavesBelow(tree, path) == {l \in Leaves(tree) : IsPrefix(path, l.path)}

\* C19: a change that gives a non-object to a namespace without shorthand
\* throws (the shorthand-not-supported error when the failure is at that key),
\* one that gives it to a namespace whose shorthand throws fails with the
\* shorthand error; in both cases the namespace's data and metadata stay as
\* they were.
C19_ShorthandErrors ==
  [][last'.op = "change" =>
       \A ns \in NonObjectsAtNamespaces(FieldsOf(cfg), last'.input, <<>>) :
         /\ ~Has(ns.specifier, "shorthand") =>
              /\ last'.err.kind # "none"
              /\ last'.err.name = ns.name => last'.err.kind = "ShorthandNotSupported"
              /\ DataAt(state'.data, ns.path) = DataAt(state.data, ns.path)
              /\ LeavesBelow(state'.metadata, ns.path) = LeavesBelow(state.metadata, ns.path)
         /\ (Has(ns.specifier, "shorthand")
               /\ ~Call(ns.specifier.shorthand, ns.value, envFoo).ok) =>
              /\ last'.err.kind # "none"
              /\ last'.err.name = ns.name => last'.err.kind = "ShorthandError"
              /\ DataAt(state'.data, ns.path) = DataAt(state.data, ns.path)
              /\ LeavesBelow(state'.metadata, ns.path) = LeavesBelow(state.metadata, ns.path)]_vars

C19_Witness ==
  /\ created /\ last.op = "change"
  /\ cfg = "ns"
  /\ last.input = O1("a", O1("c", Str("foo")))
  /\ last.err = Err("ShorthandNotSupported", "c")
  /\ DataAt(state.data, <<"a", "c", "p">>) = Str("bar")
  /\ \E n \in LeafAt(state.metadata, <<"a", "c", "p">>) : n.from = "set"

\* The shorthand of t throws after an earlier key of the input was committed.
C19_ShorthandThrowsWitness ==
  /\ created /\ last.op = "change"
  /\ last.input = O2("a", O1("x", Str("bar")), "t", Str("foo"))
  /\ last.err = Err("ShorthandError", "t")
  /\ DataAt(state.data, <<"t", "b">>) = Str("foo")

\* C20: the tree original() returns holds no object that the Manager's data
\* or metadata holds.
C20_OriginalSharesNothing ==
  (created /\ last.op = "original") => last.shared = {}

-----------------------------------------------------------------------------
\* C21: change leaves the object it was given as it was, at every depth,
\* whether it returns or throws: what shorthand expansion, fixups and type
\* mapping produce goes to the Manager's trees only.
C21_InputNotMutated ==
  last.op = "change" => last.inputAfter = last.input

\* Changes whose committed value differs from what the input holds: a
\* corrected and mapped leaf, an expanded shorthand, and a change that threw
\* after a commit.
C21_Witness ==
  /\ last.op = "change"
  /\ last.err.kind = "none"
  /\ \E i \in 1..Len(last.log) :
       /\ last.log[i].ev = "commit"
       /\ Len(last.log[i].path) = 1
       /\ Get(last.input, last.log[i].path[1]) # last.log[i].value
       /\ DataAt(state.data, last.log[i].path) = last.log[i].value

C21_ShorthandWitness ==
  /\ last.op = "change"
  /\ \E i \in 1..Len(last.log) : last.log[i].ev = "shorthand"
  /\ \E i \in 1..Len(last.log) : last.log[i].ev = "commit"
  /\ last.inputAfter = last.input

C21_ThrowWitness ==
  /\ last.op = "change"
  /\ last.err.kind # "none"
  /\ \E i \in 1..Len(last.log) : last.log[i].ev = "commit"
  /\ last.inputAfter = last.input
-----------------------------------------------------------------------------
\* What a namespace initializer returned for the key k, if anything.
SeedAt(seed, k) == IF isPlainObject(seed) /\ k \in Keys(seed) THEN Get(seed, k) ELSE Undefined

\* The value of specifier.initial(), {} when there is none.
InitialResult(specifier, env) ==
  IF Has(specifier, "initial") /\ IsFunction(specifier.initial) THEN Call(specifier.initial, Undefined, env).val ELSE EmptyObj

\* The value a leaf holds once initialized.  As the spec words it: the
\* initializer's result, undefined without an initializer.  As the code has
\* it: without an initializer the value the enclosing namespace's initializer
\* supplied for the leaf, and in either case passed through the leaf's mapType.
InitialLeafValue(specifier, seeded, env, asWorded) ==
  LET raw == IF Has(specifier, "initial") THEN Call(specifier.initial, Undefined, env).val
             ELSE IF asWorded THEN Undefined ELSE seeded
  IN IF ~asWorded /\ Has(specifier, "mapType")
       THEN Call(specifier.mapType, raw, env).val
       ELSE ToData(raw)

\* Every key of fields is a key of the data object d, at every namespace depth.
RECURSIVE KeysPresent(_, _)
KeysPresent(fields, d) ==
  /\ IsMap(d)
  /\ \A i \in 1..Len(fields.obj) :
       LET k == fields.obj[i][1]
           specifier == fields.obj[i][2]
       IN /\ k \in OwnKeys(d)
          /\ Has(specifier, "fields") => KeysPresent(specifier.fields, d.map[k])

\* Every key of fields holds its initial content in d: a leaf its initial
\* value, a namespace a nested object, a record one entry per seeded key.
RECURSIVE HoldsInitial(_, _, _, _, _)
HoldsInitial(fields, d, seed, env, asWorded) ==
  /\ IsMap(d)
  /\ \A i \in 1..Len(fields.obj) :
       LET k == fields.obj[i][1]
           specifier == fields.obj[i][2]
       IN /\ k \in OwnKeys(d)
          /\ IF Has(specifier, "fields")
               THEN HoldsInitial(specifier.fields, d.map[k],
                                 Coalesce(SeedAt(seed, k), InitialResult(specifier, env)),
                                 env, asWorded)
             ELSE IF Has(specifier, "entryFields")
               THEN /\ IsMap(d.map[k])
                    /\ OwnKeys(d.map[k]) = Keys(InitialResult(specifier, env))
             ELSE d.map[k] = InitialLeafValue(specifier, SeedAt(seed, k), env, asWorded)

\* C22 (amended): after create and after every reset every key of the spec, at
\* every namespace depth, is a key of data: a leaf holds its initializer's
\* result as mapped by its mapType (without an initializer, the value the
\* enclosing namespace's initializer supplied, else undefined), a namespace a
\* nested object, a record one entry per seeded key (none without an
\* initializer); and no later change removes a key.
C22_EveryKeyInitialized ==
  created =>
    /\ KeysPresent(FieldsOf(cfg), state.data)
    /\ (last.op \in {"create", "reset"} /\ last.err.kind = "none")
         => HoldsInitial(FieldsOf(cfg), state.data, EmptyObj, hist.env, FALSE)

\* A reset after changes, on a spec with a leaf that has no initializer
\* inside a nested namespace.
C22_Witness ==
  /\ last.op = "reset"
  /\ last.err.kind = "none"
  /\ last.undone # {}
  /\ DataAt(state.data, <<"a", "c", "q">>) = Undefined

\* A change that threw after a commit, on a spec with a seeded record.
C22_ChangeWitness ==
  /\ last.op = "change"
  /\ last.err.kind # "none"
  /\ hist.set # {}
  /\ DataAt(state.data, <<"r", "k1", "f">>) # Missing

\* C22 as worded: after create and every reset each leaf holds its
\* initializer's result, undefined when it has no initializer.
C22_LeavesHoldInitializerResult ==
  (created /\ last.op \in {"create", "reset"} /\ last.err.kind = "none")
    => HoldsInitial(FieldsOf(cfg), state.data, EmptyObj, hist.env, TRUE)
-----------------------------------------------------------------------------
\* The names of the records at the top level of a metadata tree.
Records(tree) == {name \in OwnKeys(tree) : IsRecordNode(tree.map[name])}

\* The entries of a record as its metadata has them: key -> field -> value.
EntryValues(value) ==
  [k \in OwnKeys(value) |->
    [f \in OwnKeys(value.map[k]) |-> value.map[k].map[f].value]]

\* The entries of a record as its data has them.
EntryData(d) == [k \in OwnKeys(d) |-> [f \in OwnKeys(d.map[k]) |-> d.map[k].map[f]]]

-----------------------------------------------------------------------------
\* The leaves and records of a spec (through namespaces) whose `initial` is
\* declared with a value that is not a function.
RECURSIVE StaticInitials(_)
StaticInitials(fields) ==
  UNION {
    LET specifier == fields.obj[i][2]
    IN IF Has(specifier, "fields") THEN StaticInitials(specifier.fields)
       ELSE IF Has(specifier, "initial") /\ ~IsFunction(specifier.initial)
         THEN {fields.obj[i][1]}
       ELSE {} : i \in 1..Len(fields.obj)}

\* C24: when a leaf's or a record's `initial` is declared with a value that
\* is not a function, create throws the invalid-initializer error and no
\* Manager is returned.
C24_StaticInitialRejected ==
  StaticInitials(FieldsOf(cfg)) # {} =>
    /\ ~created
    /\ last.op = "create" =>
         /\ last.err.kind = "InvalidInitializerKind"
         /\ last.err.name \in StaticInitials(FieldsOf(cfg))
         /\ last.ret = Undefined

\* The part that holds: a static `initial` that is truthy, on a leaf or on a
\* record, is rejected.
C24_TruthyStaticInitialRejected ==
  (cfg \in {"staticLeaf", "staticRec"}) =>
    /\ ~created
    /\ last.op = "create" =>
         /\ last.err.kind = "InvalidInitializerKind"
         /\ last.err.name \in StaticInitials(FieldsOf(cfg))
-----------------------------------------------------------------------------
\* The settings of a spec (leaves, records and namespaces, through
\* namespaces) whose initializer throws when process.env.foo = env.
RECURSIVE ThrowingInitials(_, _)
ThrowingInitials(fields, env) ==
  UNION {
    LET specifier == fields.obj[i][2]
    IN (IF Has(specifier, "initial") /\ IsFunction(specifier.initial)
             /\ ~Call(specifier.initial, Undefined, env).ok
          THEN {fields.obj[i][1]} ELSE {})
       \cup (IF Has(specifier, "fields") THEN ThrowingInitials(specifier.fields, env) ELSE {})
    : i \in 1..Len(fields.obj)}

\* C25: when an initializer throws (of a leaf, of a record or of a
\* namespace; in create or in reset) the call fails with the initializer
\* error naming the setting, and the Manager's data and metadata stay as they
\* were.
C25_InitializerErrorWrapped ==
  [][(last'.op \in {"create", "reset"} /\ envFoo' = envFoo
        /\ ThrowingInitials(FieldsOf(cfg), envFoo) # {}) =>
       /\ last'.err.kind = "InitializerError"
       /\ last'.err.name \in ThrowingInitials(FieldsOf(cfg), envFoo)
       /\ state' = state
       /\ created' = created]_vars

\* The part that holds: the initializer of a leaf or of a record.
C25_LeafOrRecordInitializerErrorWrapped ==
  [][(last'.op \in {"create", "reset"} /\ envFoo' = envFoo /\ cfg # "throwNs"
        /\ ThrowingInitials(FieldsOf(cfg), envFoo) # {}) =>
       /\ last'.err.kind = "InitializerError"
       /\ last'.err.name \in ThrowingInitials(FieldsOf(cfg), envFoo)
       /\ state' = state
       /\ created' = created]_vars

\* A reset that failed after a change: the changed data is still in place.
C25_ResetWitness ==
  /\ created
  /\ last.op = "reset"
  /\ last.err.kind = "InitializerError"
  /\ hist.set # {}
  /\ DataAt(state.data, <<"a">>) = Str("bar")
-----------------------------------------------------------------------------
\* The leaves of a spec (at the top level, in namespaces and in entryFields)
\* whose mapType is declared with a value that is not a function.
RECURSIVE StaticMapTypes(_)
StaticMapTypes(fields) ==
  UNION {
    LET specifier == fields.obj[i][2]
    IN IF Has(specifier, "fields") THEN StaticMapTypes(specifier.fields)
       ELSE IF Has(specifier, "entryFields") THEN StaticMapTypes(specifier.entryFields)
       ELSE IF Has(specifier, "mapType") /\ ~IsFunction(specifier.mapType)
         THEN {fields.obj[i][1]}
       ELSE {} : i \in 1..Len(fields.obj)}

\* C26: unless NODE_ENV is 'production', create on a spec in which a leaf
\* (at the top level, in a namespace or in entryFields) declares a mapType
\* that is not a function throws the invalid-type-mapper error before any
\* initializer has been called; when NODE_ENV is 'production' that check is
\* not made (the initializers run, and create does not throw that error).
C26_TypeMapperPreflight ==
  (StaticMapTypes(FieldsOf(cfg)) # {} /\ last.op = "create") =>
    IF nodeEnv # "production"
      THEN /\ last.err.kind = "InvalidTypeMapper"
           /\ last.err.name \in StaticMapTypes(FieldsOf(cfg))
           /\ last.log = <<>>
           /\ ~created
      ELSE /\ last.err.kind # "InvalidTypeMapper"
           /\ Events("initial") # {}

\* create failed on a mapType declared inside a record's entryFields, in a
\* spec whose first setting has an initializer.
C26_Witness ==
  /\ cfg = "mapRec"
  /\ nodeEnv = "development"
  /\ last.op = "create"
  /\ last.err.kind = "InvalidTypeMapper"
  /\ Has(FieldsOf(cfg).obj[1][2], "initial")

C26_ProductionWitness ==
  /\ nodeEnv = "production"
  /\ last.op = "create"
  /\ last.err.kind = "TypeMapperError"
  /\ Events("initial") # {}
-----------------------------------------------------------------------------
\* C27: every change that returns and every reset that returns hands back the
\* Manager that create returned, and that Manager's data and metadata are
\* the updated trees.
C27_SameManagerReturned ==
  (last.op \in {"change", "reset"} /\ last.err.kind = "none") =>
    /\ last.ret = Api
    /\ state.api.data = state.data
    /\ state.api.metadata = state.metadata

\* A change that committed, made on the Manager a reset returned, after that
\* reset had undone an earlier change.
C27_Witness ==
  /\ last.op = "change"
  /\ last.err.kind = "none"
  /\ hist.set # {}
  /\ hist.data # hist.origin.data
  /\ state.data # hist.data
  /\ last.ret = Api

C27_ResetWitness ==
  /\ last.op = "reset"
  /\ last.err.kind = "none"
  /\ last.undone # {}
  /\ last.ret = Api
-----------------------------------------------------------------------------
\* The hook of the leaf called name throws on arg.
HookThrows(hook, name, arg, env) ==
  \E ls \in LeafSpecs(FieldsOf(cfg)) :
    /\ ls.name = name
    /\ Has(ls.specifier, hook)
    /\ ~Call(ls.specifier[hook], arg, env).ok

\* The error a change owes for the event e of its trace, "none" when the
\* hook call that e records did not fail.
Failure(e, env) ==
  CASE e.ev = "fixup" /\ HookThrows("fixup", e.name, e.arg, env) -> "FixupError"
    [] e.ev = "onFixup" /\ OptionsOf(cfg) = [onFixup |-> FnThrow] -> "OnFixupError"
    [] e.ev = "validate" /\ HookThrows("validate", e.name, e.arg, env) -> "ValidationRuntimeError"
    [] e.ev = "validate" /\ ~HookThrows("validate", e.name, e.arg, env) /\ Truthy(e.out)
         -> "ValidationFailed"
    [] e.ev = "mapType" /\ HookThrows("mapType", e.name, e.arg, env) -> "TypeMapperError"
    [] OTHER -> "none"

\* The setting an event is about.
Subject(e) == IF e.ev = "onFixup" THEN e.info.name ELSE e.name

AllCommitPaths(log) == {log[i].path : i \in {j \in 1..Len(log) : log[j].ev = "commit"}}

\* C28: in a change, when a leaf's fixup throws, the onFixup handler throws,
\* its validator throws or returns a violation, or its mapType throws, the
\* change stops there and throws the corresponding error, and the leaf is
\* not committed: its data value and its metadata value, from and initial are
\* as before the call (for a leaf of a record entry the call itself created,
\* as initialized).
C28_FailedLeafNotCommitted ==
  [][(last'.op = "change" /\ envFoo' = envFoo) =>
       \A i \in 1..Len(last'.log) :
         Failure(last'.log[i], envFoo) # "none" =>
           /\ i = Len(last'.log)
           /\ last'.err.kind = Failure(last'.log[i], envFoo)
           /\ last'.err.name = Subject(last'.log[i])
           /\ last'.ret = Undefined
           /\ \A l \in Leaves(state'.metadata) :
                (/\ l.path[Len(l.path)] = Subject(last'.log[i])
                 /\ l.path \notin AllCommitPaths(last'.log)) =>
                  /\ DataAt(state'.data, l.path) = l.node.value
                  /\ IF LeafAt(state.metadata, l.path) # {}
                       THEN /\ LeafAt(state.metadata, l.path) = {l.node}
                            /\ DataAt(state.data, l.path) = DataAt(state'.data, l.path)
                       ELSE l.node.from = "initial" /\ l.node.value = l.node.initial]_vars

\* mapType threw on a value that the fixup had corrected and the validator
\* had accepted, for a leaf that an earlier change had set.
C28_Witness ==
  /\ last.op = "change"
  /\ last.err.kind = "TypeMapperError"
  /\ Events("fixup") # {} /\ Events("validate") # {}
  /\ \E l \in Leaves(state.metadata) :
       /\ l.path[Len(l.path)] = last.err.name
       /\ l.node.from = "set"
       /\ l.node.value # l.node.initial

C28_FixupThrowsWitness == last.op = "change" /\ last.err.kind = "FixupError"
C28_OnFixupThrowsWitness == last.op = "change" /\ last.err.kind = "OnFixupError"
C28_ValidateThrowsWitness == last.op = "change" /\ last.err.kind = "ValidationRuntimeError"
C28_ViolationWitness == last.op = "change" /\ last.err.kind = "ValidationFailed"
-----------------------------------------------------------------------------
\* The data object d and the metadata object meta agree on the settings of
\* fields: a leaf's data value is its metadata value, a namespace's data and
\* metadata fields agree, a record's data has the entry keys of its metadata
\* value and each entry agrees.
RECURSIVE Agree(_, _, _)
Agree(fields, d, meta) ==
  /\ IsMap(d) /\ IsMap(meta)
  /\ \A i \in 1..Len(fields.obj) :
       LET k == fields.obj[i][1]
           specifier == fields.obj[i][2]
       IN /\ k \in OwnKeys(d) /\ k \in OwnKeys(meta)
          /\ IF Has(specifier, "fields")
               THEN /\ Has(meta.map[k], "fields")
                    /\ Agree(specifier.fields, d.map[k], meta.map[k].fields)
             ELSE IF Has(specifier, "entryFields")
               THEN /\ IsMap(d.map[k]) /\ Has(meta.map[k], "value") /\ IsMap(meta.map[k].value)
                    /\ OwnKeys(d.map[k]) = OwnKeys(meta.map[k].value)
                    /\ \A key \in OwnKeys(d.map[k]) :
                         Agree(specifier.entryFields, d.map[k].map[key],
                               meta.map[k].value.map[key])
             ELSE /\ Has(meta.map[k], "value")
                  /\ d.map[k] = meta.map[k].value

\* C29: in every reachable state of a Manager data and metadata agree: each
\* leaf's data value is its metadata value (also inside record entries), and
\* a record's data has exactly the entry keys of its metadata value.
C29_DataAgreesWithMetadata ==
  created => Agree(FieldsOf(cfg), state.data, state.metadata)

\* The part that holds: specs in which no namespace initializer returns a
\* value for a record.
C29_AgreeUnlessRecordSeededByNamespace ==
  (created /\ cfg # "seedRec") => Agree(FieldsOf(cfg), state.data, state.metadata)
-----------------------------------------------------------------------------
\* What the fixup of a leaf leaves of the value v.
Fixed(specifier, v, env) ==
  IF Has(specifier, "fixup") /\ Truthy(Call(specifier.fixup, v, env).val)
    THEN Get(Call(specifier.fixup, v, env).val, "value")
    ELSE v

\* The validator of a leaf rejects the value v (once fixed up).
Rejected(specifier, v, env) ==
  /\ Has(specifier, "validate")
  /\ Truthy(Call(specifier.validate, Fixed(specifier, v, env), env).val)

\* The value v once through a leaf's fixup and mapType.
Piped(specifier, v, env) ==
  IF Has(specifier, "mapType")
    THEN Call(specifier.mapType, Fixed(specifier, v, env), env).val
    ELSE Fixed(specifier, v, env)

\* The top-level records of the spec that have an initializer, each with the
\* entries its initializer returns.
SeededRecords(env) ==
  {[name |-> FieldsOf(cfg).obj[i][1],
    specifier |-> FieldsOf(cfg).obj[i][2],
    seed |-> IF isPlainObject(Call(FieldsOf(cfg).obj[i][2].initial, Undefined, env).val)
               THEN Call(FieldsOf(cfg).obj[i][2].initial, Undefined, env).val
               ELSE EmptyObj] :
     i \in {j \in 1..Len(FieldsOf(cfg).obj) :
              /\ Has(FieldsOf(cfg).obj[j][2], "entryFields")
              /\ Has(FieldsOf(cfg).obj[j][2], "initial")
              /\ IsFunction(FieldsOf(cfg).obj[j][2].initial)}}

\* The seed of record rec has a value that the validator of its entry field
\* rejects.
SeedRejected(rec, env) ==
  \E k \in Keys(rec.seed) :
    \E i \in 1..Len(rec.specifier.entryFields.obj) :
      LET f == rec.specifier.entryFields.obj[i][1]
      IN /\ isPlainObject(Get(rec.seed, k))
         /\ f \in Keys(Get(rec.seed, k))
         /\ Rejected(rec.specifier.entryFields.obj[i][2], Get(Get(rec.seed, k), f), env)

\* C30: the entries a record's initializer returns are first initialized
\* from entryFields and then resolved through fixup, validate and mapType
\* with provenance 'initial': after create every leaf of such an entry has
\* from = 'initial' and metadata initial equal to its value; a field the
\* seed gives holds the seed's value as fixed up and mapped, a field it omits
\* holds its own initializer's result; a seed value that its validator
\* rejects makes create throw.
C30_SeedEntriesResolvedAsInitial ==
  last.op = "create" =>
    \A rec \in SeededRecords(hist.env) :
      IF SeedRejected(rec, hist.env)
        THEN last.err.kind = "ValidationFailed" /\ ~created
      ELSE last.err.kind = "none" =>
        \A k \in Keys(rec.seed) :
          \A i \in 1..Len(rec.specifier.entryFields.obj) :
            LET f == rec.specifier.entryFields.obj[i][1]
                specifier == rec.specifier.entryFields.obj[i][2]
                expected == IF f \in Keys(Get(rec.seed, k))
                              THEN Piped(specifier, Get(Get(rec.seed, k), f), hist.env)
                              ELSE InitialValue(specifier, hist.env)
            IN /\ DataAt(state.data, <<rec.name, k, f>>) = expected
               /\ LeafAt(state.metadata, <<rec.name, k, f>>) =
                    {[type |-> "leaf", from |-> "initial", value |-> expected,
                      initial |-> expected]}

\* A seed value that fixup corrected and mapType mapped, next to a field the
\* seed omits.
C30_Witness ==
  /\ created
  /\ last.op = "create"
  /\ cfg = "recPipe"
  /\ Events("fixup") # {} /\ Events("validate") # {} /\ Events("mapType") # {}
  /\ DataAt(state.data, <<"r", "k1", "f">>) = Str("file:/bar")
  /\ DataAt(state.data, <<"r", "k1", "g">>) = Str("bar")

\* A seed value that its validator rejects.
C30_RejectedWitness ==
  /\ ~created
  /\ last.op = "create"
  /\ cfg = "recBad"
  /\ last.err.kind = "ValidationFailed"
-----------------------------------------------------------------------------
\* The entry keys a change input gives for the top-level record called name.
InputEntryKeys(input, name) ==
  IF isPlainObject(input) /\ name \in Keys(input) /\ isPlainObject(Get(input, name))
    THEN Keys(Get(input, name))
    ELSE {}

\* The leaves of the entry key of the record called name, in a metadata tree.
EntryLeaves(tree, name, key) ==
  {l \in Leaves(tree) : Len(l.path) = 3 /\ l.path[1] = name /\ l.path[2] = key}

\* The specifier of the entry field f of the top-level record called name.
EntryField(name, f) == Get(Get(FieldsOf(cfg), name).entryFields, f)

\* The first entry key a change input gives for the record called name, when
\* that record is the first setting the input names: resolveRecord reaches
\* that key whatever the call's outcome.
FirstEntryKey(input, name) ==
  IF /\ isPlainObject(input) /\ Len(input.obj) > 0 /\ input.obj[1][1] = name
     /\ isPlainObject(input.obj[1][2]) /\ Len(input.obj[1][2].obj) > 0
    THEN {input.obj[1][2].obj[1][1]}
    ELSE {}

\* What C31 states of one change step, for the entry keys in keys.
EntriesMerged(keys) ==
  \A name \in Records(state.metadata) :
    /\ \A key \in FirstEntryKey(last'.input, name) \cap keys :
         key \in OwnKeys(state'.data.map[name])
    /\ \A key \in OwnKeys(state.data.map[name]) \ InputEntryKeys(last'.input, name) :
         /\ key \in OwnKeys(state'.data.map[name])
         /\ state'.data.map[name].map[key] = state.data.map[name].map[key]
         /\ state'.metadata.map[name].value.map[key]
              = state.metadata.map[name].value.map[key]
    /\ \A key \in OwnKeys(state'.data.map[name]) :
         \A l \in EntryLeaves(state'.metadata, name, key) :
           IF l.path \in AllCommitPaths(last'.log)
             THEN l.node.from = "set" /\ Names(last'.input, l.path)
           ELSE IF key \in OwnKeys(state.data.map[name])
             THEN /\ LeafAt(state.metadata, l.path) = {l.node}
                  /\ DataAt(state'.data, l.path) = DataAt(state.data, l.path)
           ELSE /\ key \in InputEntryKeys(last'.input, name)
                /\ l.node.from = "initial"
                /\ l.node.value = InitialValue(EntryField(name, l.path[3]), envFoo)
                /\ l.node.initial = l.node.value
                /\ DataAt(state'.data, l.path) = l.node.value

\* C31: a change that targets a record initializes an entry for each input
\* key the record has no entry under (all its leaves from 'initial', holding
\* their initial values) and commits into it only the leaves the input
\* names (from 'set'); an existing entry is merged into, its leaves not
\* committed staying as they were; entries the input does not name are
\* untouched.
C31_RecordEntriesMerged ==
  [][(last'.op = "change" /\ envFoo' = envFoo) =>
       EntriesMerged(EntryKeys \cup ProtoKeys)]_vars

\* The part that holds: entry keys that are not names of Object.prototype.
C31_OrdinaryEntriesMerged ==
  [][(last'.op = "change" /\ envFoo' = envFoo) => EntriesMerged(EntryKeys)]_vars

\* A change added an entry naming one of its two fields, next to an entry
\* that an earlier change had set and that this change did not name.
C31_Witness ==
  /\ last.op = "change"
  /\ last.err.kind = "none"
  /\ last.input = O1("r", O1("k2", O1("g", Str("foo"))))
  /\ \E n \in LeafAt(state.metadata, <<"r", "k2", "g">>) : n.from = "set"
  /\ \E n \in LeafAt(state.metadata, <<"r", "k2", "f">>) : n.from = "initial"
  /\ \E n \in LeafAt(state.metadata, <<"r", "k1", "f">>) : n.from = "set"
  /\ \E n \in LeafAt(state.metadata, <<"r", "k1", "g">>) : n.from = "initial"

\* An existing entry was merged into: one leaf set now, another set earlier.
C31_MergeWitness ==
  /\ last.op = "change"
  /\ last.err.kind = "none"
  /\ last.input = O1("r", O1("k1", O1("g", Str("foo"))))
  /\ \E n \in LeafAt(state.metadata, <<"r", "k1", "f">>) :
       n.from = "set" /\ <<"r", "k1", "f">> \notin AllCommitPaths(last.log)
-----------------------------------------------------------------------------
\* The metadata object meta mirrors the shape of fields: a node with value,
\* initial and from for a leaf and for a record, { fields } covering every
\* field for a namespace.
RECURSIVE Mirrors(_, _)
Mirrors(fields, meta) ==
  /\ IsMap(meta)
  /\ \A i \in 1..Len(fields.obj) :
       LET k == fields.obj[i][1]
           specifier == fields.obj[i][2]
       IN /\ k \in OwnKeys(meta)
          /\ IF Has(specifier, "fields")
               THEN /\ Has(meta.map[k], "fields")
                    /\ Mirrors(specifier.fields, meta.map[k].fields)
               ELSE {"value", "initial", "from"} \subseteq DOMAIN meta.map[k]

\* The errors create and reset throw by design: for a spec that is not well
\* formed, an initializer or type mapper that throws, a seed value that is
\* rejected.
InitializeErrors ==
  {"InvalidTypeMapper", "InvalidInitializerKind", "InitializerError", "HookThrew",
   "TypeMapperError", "FixupError", "OnFixupError", "ValidationRuntimeError",
   "ValidationFailed"}

\* C32: after create and after every reset the metadata tree mirrors the
\* spec's shape (leaf nodes, { fields } for namespaces, record nodes), also
\* for a spec in which a namespace's initializer returns a value for a nested
\* namespace or for a record: create and reset of such a spec do not fail
\* otherwise than by the errors they throw by design.
C32_MetadataMirrorsSpec ==
  last.op \in {"create", "reset"} =>
    IF last.err.kind = "none"
      THEN Mirrors(FieldsOf(cfg), state.metadata)
      ELSE last.err.kind \in InitializeErrors

\* The part that holds: specs in which no namespace initializer returns a
\* value for a nested namespace.
C32_MirrorsUnlessNamespaceSeeded ==
  (last.op \in {"create", "reset"} /\ cfg # "seedNs") =>
    IF last.err.kind = "none"
      THEN Mirrors(FieldsOf(cfg), state.metadata)
      ELSE last.err.kind \in InitializeErrors
-----------------------------------------------------------------------------
\* The top-level namespaces of the spec that have an initializer, each with
\* the object its initializer returns.
SeededNamespaces(env) ==
  {[name |-> FieldsOf(cfg).obj[i][1],
    fields |-> FieldsOf(cfg).obj[i][2].fields,
    seed |-> Call(FieldsOf(cfg).obj[i][2].initial, Undefined, env).val] :
     i \in {j \in 1..Len(FieldsOf(cfg).obj) :
              /\ Has(FieldsOf(cfg).obj[j][2], "fields")
              /\ Has(FieldsOf(cfg).obj[j][2], "initial")
              /\ IsFunction(FieldsOf(cfg).obj[j][2].initial)
              /\ isPlainObject(Call(FieldsOf(cfg).obj[j][2].initial, Undefined, env).val)}}

\* The leaves declared directly in a namespace.
LeafFieldsOf(fields) ==
  {i \in 1..Len(fields.obj) :
     ~Has(fields.obj[i][2], "fields") /\ ~Has(fields.obj[i][2], "entryFields")}

\* C33: after create, in a namespace that declares an initializer, a leaf
\* the returned seed covers holds the seed's value, whether or not the leaf
\* declares an initializer of its own, and a leaf the seed does not cover
\* holds its own initializer's result, undefined when it has none.
C33_SeedIsBase ==
  (created /\ last.op = "create" /\ last.err.kind = "none") =>
    \A ns \in SeededNamespaces(hist.env) :
      \A i \in LeafFieldsOf(ns.fields) :
        LET k == ns.fields.obj[i][1]
            specifier == ns.fields.obj[i][2]
        IN DataAt(state.data, <<ns.name, k>>) =
             IF k \in Keys(ns.seed) THEN ToData(Get(ns.seed, k))
             ELSE IF Has(specifier, "initial")
               THEN Call(specifier.initial, Undefined, hist.env).val
             ELSE Undefined

\* The part that holds: a leaf without an initializer of its own holds the
\* seed's value when the seed covers it and undefined otherwise; a leaf with
\* an initializer holds its initializer's result, covered or not.
C33_SeedUnlessOwnInitializer ==
  (created /\ last.op = "create" /\ last.err.kind = "none") =>
    \A ns \in SeededNamespaces(hist.env) :
      \A i \in LeafFieldsOf(ns.fields) :
        LET k == ns.fields.obj[i][1]
            specifier == ns.fields.obj[i][2]
        IN DataAt(state.data, <<ns.name, k>>) =
             IF Has(specifier, "initial")
               THEN Call(specifier.initial, Undefined, hist.env).val
             ELSE IF k \in Keys(ns.seed) THEN ToData(Get(ns.seed, k))
             ELSE Undefined
-----------------------------------------------------------------------------
\* The error kinds by which a change rejects a value its fixup had corrected.
AfterFixupErrors == {"ValidationFailed", "ValidationRuntimeError", "TypeMapperError"}

\* C34: in a change the notification of a correction is delivered right
\* after the fixup returned it, before the leaf is validated, mapped and
\* committed; so when the validator rejects the corrected value or mapType
\* throws on it, the notification has been delivered although the change
\* throws and the leaf keeps the value and metadata it had.
C34_NotifiedBeforeValidation ==
  [][(last'.op = "change" /\ envFoo' = envFoo) =>
       \A i \in 1..Len(last'.log) :
         (last'.log[i].ev = "fixup" /\ Truthy(last'.log[i].out)) =>
           /\ i < Len(last'.log)
           /\ last'.log[i + 1].ev = Delivery
           /\ last'.log[i + 1].info.name = last'.log[i].name
           /\ last'.log[i + 1].info.after = Get(last'.log[i].out, "value")
           /\ (/\ last'.err.kind \in AfterFixupErrors
               /\ last'.err.name = last'.log[i].name
               /\ \A j \in (i + 1)..Len(last'.log) : last'.log[j].ev # "commit") =>
                \A l \in Leaves(state.metadata) :
                  l.path[Len(l.path)] = last'.log[i].name =>
                    /\ LeafAt(state'.metadata, l.path) = {l.node}
                    /\ DataAt(state'.data, l.path) = DataAt(state.data, l.path)]_vars

\* The validator rejected a corrected value: the notification is in the trace
\* before the validator's call, and the change threw.
C34_Witness ==
  /\ last.op = "change"
  /\ last.err.kind = "ValidationFailed"
  /\ \E i \in 1..Len(last.log) :
       /\ last.log[i].ev = "fixup" /\ Truthy(last.log[i].out)
       /\ i + 2 = Len(last.log)
       /\ last.log[i + 1].ev = Delivery
       /\ last.log[i + 2].ev = "validate"
       /\ last.log[i + 2].arg = Get(last.log[i].out, "value")

\* mapType threw on a corrected value.
C34_MapTypeWitness ==
  /\ last.op = "change"
  /\ last.err.kind = "TypeMapperError"
  /\ \E i \in 1..Len(last.log) :
       /\ last.log[i].ev = "fixup" /\ Truthy(last.log[i].out)
       /\ last.log[i + 1].ev = Delivery
       /\ last.log[Len(last.log)].ev = "mapType"
-----------------------------------------------------------------------------
\* C35: in every reachable state a leaf whose metadata `from` is 'initial'
\* has metadata value equal to metadata initial (plain leaves, leaves a
\* namespace initializer seeded, leaves of seeded and of added record
\* entries): a leaf's value differs from its initial only when from is 'set'.
C35_InitialLeavesHoldInitial ==
  created =>
    \A l \in Leaves(state.metadata) :
      l.node.from = "initial" => l.node.value = l.node.initial

\* A record with a seeded entry whose resolved seed differs from the entry
\* field's initializer result, and an added entry with an untouched leaf.
C35_Witness ==
  /\ created
  /\ cfg = "rec"
  /\ \E n \in LeafAt(state.metadata, <<"r", "k1", "f">>) :
       n.from = "initial" /\ n.value # InitialValue(EntryField("r", "f"), envFoo)
  /\ \E n \in LeafAt(state.metadata, <<"r", "k2", "f">>) : n.from = "initial"
  /\ \E n \in LeafAt(state.metadata, <<"r", "k2", "g">>) :
       n.from = "set" /\ n.value # n.initial

\* A leaf that a namespace initializer seeded.
C35_SeededWitness ==
  /\ created
  /\ cfg = "seed"
  /\ \E n \in LeafAt(state.metadata, <<"w", "x">>) :
       n.from = "initial" /\ n.value = Str("bar")
  /\ \E n \in LeafAt(state.metadata, <<"w", "y">>) : n.from = "set"
-----------------------------------------------------------------------------
\* The metadata nodes of the fields that the spec declares as records,
\* through namespaces.
RECURSIVE RecordNodes(_, _)
RecordNodes(fields, meta) ==
  IF ~IsMap(meta) THEN {}
  ELSE UNION {
         LET k == fields.obj[i][1]
             specifier == fields.obj[i][2]
         IN IF k \notin OwnKeys(meta) THEN {}
            ELSE IF Has(specifier, "fields")
              THEN IF Has(meta.map[k], "fields")
                     THEN RecordNodes(specifier.fields, meta.map[k].fields)
                     ELSE {}
            ELSE IF Has(specifier, "entryFields") THEN {meta.map[k]}
            ELSE {} : i \in 1..Len(fields.obj)}

\* C37: in every reachable state the metadata node of a record has from =
\* 'initial': no change, whether it modifies entries or adds them, sets the
\* record's own from to 'set' (only the leaves inside the entries show it).
C37_RecordFromIsInitial ==
  created =>
    \A node \in RecordNodes(FieldsOf(cfg), state.metadata) :
      Has(node, "from") /\ node.from = "initial"

\* A record to which changes added an entry and in which they modified the
\* seeded one: leaves of both entries are 'set'.
C37_Witness ==
  /\ created
  /\ cfg = "rec"
  /\ \E node \in RecordNodes(FieldsOf(cfg), state.metadata) :
       /\ node.from = "initial"
       /\ node.value # node.initial
       /\ {"k1", "k2"} \subseteq OwnKeys(node.value)
  /\ \E n \in LeafAt(state.metadata, <<"r", "k1", "f">>) : n.from = "set"
  /\ \E n \in LeafAt(state.metadata, <<"r", "k2", "g">>) : n.from = "set"
-----------------------------------------------------------------------------
C36_ChangeWitness ==
  /\ last.op = "change"
  /\ last.err.kind = "none"
  /\ hist.env # hist.origin.env
  /\ last.target = Current
  /\ state.api.data # hist.data
  /\ state.api.data = state.data
-----------------------------------------------------------------------------
ServerPaths(forced) == {<<"server", k>> : k \in Keys(forced)}

\* C38: once createTestContext has replaced settings.change, every call
\* settings.change(s) hands the original change s with s.server overlaid by
\* the forced server settings when s.server is defined (the other server
\* settings and the settings outside server as the caller gave them), and s as
\* given when s.server is undefined; the server settings committed since the
\* replacement, or since a later reset, are the forced ones.
C38_ForcedServerSettings ==
  (cfg = "server" /\ state.api.change # ManagerChange) =>
    LET forced == state.api.change.forced
        given == Get(last.given, "server")
        passed == Get(last.input, "server")
    IN /\ last.op = "settings.change" =>
            IF given # Undefined
              THEN /\ isPlainObject(passed)
                   /\ \A k \in Keys(forced) : Get(passed, k) = Get(forced, k)
                   /\ isPlainObject(given) =>
                        \A k \in Keys(given) \ Keys(forced) : Get(passed, k) = Get(given, k)
                   /\ Keys(last.input) = Keys(last.given)
                   /\ \A k \in Keys(last.given) \ {"server"} :
                        Get(last.input, k) = Get(last.given, k)
              ELSE last.input = last.given
       /\ ServerPaths(forced) \subseteq hist.set =>
            \A k \in Keys(forced) : DataAt(state.data, <<"server", k>>) = Get(forced, k)

\* A call that asked for a port of its own and for a host: the host is
\* changed, the port is the forced one.
C38_Witness ==
  /\ cfg = "server"
  /\ state.api.change # ManagerChange
  /\ last.op = "settings.change"
  /\ last.err.kind = "none"
  /\ \E s \in ServerInputs :
       /\ Get(s, "server") = O1("port", Num(5000))
       /\ last.given = s
  /\ Get(Get(last.input, "server"), "port") = Get(state.api.change.forced, "port")
  /\ DataAt(state.data, <<"server", "port">>) = Get(state.api.change.forced, "port")
  /\ DataAt(state.data, <<"server", "host">>) = Str("bar")
  /\ DataAt(state.data, <<"server", "playground">>) = Bool(FALSE)

\* A call without server settings, handed on as given.
C38_UndefinedWitness ==
  /\ cfg = "server"
  /\ last.op = "settings.change"
  /\ last.err.kind = "none"
  /\ Get(last.given, "server") = Undefined
  /\ last.input = last.given
  /\ <<"a">> \in CommitPaths(last.log)
  /\ ServerPaths(state.api.change.forced) \subseteq hist.set

\* A reset after the replacement: the server settings are the initial ones
\* until the next call that names server.
C38_ResetWitness ==
  /\ cfg = "server"
  /\ state.api.change # ManagerChange
  /\ last.op = "reset"
  /\ DataAt(state.data, <<"server", "playground">>) = Bool(TRUE)
====
